---- MODULE Spec2Model ----
(***************************************************************************)
(* JVC projector integration: the command model and response formatter of *)
(* jvcprojector/command.py, and the connection lifecycle of the callers    *)
(* (coordinator poll, remote entity, select entity, config flow, setup).   *)
(*                                                                         *)
(* Text is modelled as a sequence of one-character strings, so that the    *)
(* formatter's pattern matching, hex parsing and slicing are computed.     *)
(***************************************************************************)
EXTENDS Integers, Sequences, FiniteSets, TLC

\* Python's None, as a value that is no text (every text is a sequence of
\* one-character strings).
None == <<"<None>">>

Min(S) == CHOOSE x \in S : \A y \in S : x <= y

--------------------------------------------------------------------------
\* jvcprojector/const.py and jvcprojector/command.py: the tables.

FormatterEntries ==
  <<
  [key |-> "PW(.)", heads |-> {<<"P", "W">>}, groups |-> <<1>>,
   fmt |-> [type |-> "list", items |-> <<<<"s", "t", "a", "n", "d", "b", "y">>, <<"o", "n">>, <<"c", "o", "o", "l", "i", "n", "g">>, <<"w", "a", "r", "m", "i", "n", "g">>, <<"e", "r", "r", "o", "r">>>>, keys |-> <<>>, fn |-> "-"]],
  [key |-> "(?:IP|IFIN)(.)", heads |-> {<<"I", "P">>, <<"I", "F", "I", "N">>}, groups |-> <<1>>,
   fmt |-> [type |-> "dict", items |-> <<<<"s", "v", "i", "d", "e", "o">>, <<"v", "i", "d", "e", "o">>, <<"c", "o", "m", "p", "o", "n", "e", "n", "t">>, <<"p", "c">>, <<"h", "d", "m", "i", "1">>, <<"h", "d", "m", "i", "2">>>>, keys |-> <<<<"0">>, <<"1">>, <<"2">>, <<"3">>, <<"6">>, <<"7">>>>, fn |-> "-"]],
  [key |-> "SC(.)", heads |-> {<<"S", "C">>}, groups |-> <<1>>,
   fmt |-> [type |-> "list", items |-> <<<<"n", "o", "s", "i", "g", "n", "a", "l">>, <<"s", "i", "g", "n", "a", "l">>>>, keys |-> <<>>, fn |-> "-"]],
  [key |-> "IFIS(..)", heads |-> {<<"I", "F", "I", "S">>}, groups |-> <<2>>,
   fmt |-> [type |-> "dict", items |-> <<<<"4", "8", "0", "p">>, <<"5", "7", "6", "p">>, <<"7", "2", "0", "p", "5", "0">>, <<"7", "2", "0", "p", "6", "0">>, <<"1", "0", "8", "0", "p", "2", "4">>, <<"1", "0", "8", "0", "p", "5", "0">>, <<"1", "0", "8", "0", "p", "6", "0">>, <<"N", "o", " ", "S", "i", "g", "n", "a", "l">>, <<"O", "u", "t", " ", "o", "f", " ", "R", "a", "n", "g", "e">>, <<"4", "k", "(", "4", "0", "9", "6", ")", "6", "0">>, <<"4", "k", "(", "4", "0", "9", "6", ")", "5", "0">>, <<"4", "k", "(", "4", "0", "9", "6", ")", "3", "0">>, <<"4", "k", "(", "4", "0", "9", "6", ")", "2", "5">>, <<"4", "k", "(", "4", "0", "9", "6", ")", "2", "4">>, <<"4", "k", "(", "3", "8", "4", "0", ")", "6", "0">>, <<"4", "k", "(", "3", "8", "4", "0", ")", "5", "0">>, <<"4", "k", "(", "3", "8", "4", "0", ")", "3", "0">>, <<"4", "k", "(", "3", "8", "4", "0", ")", "2", "5">>, <<"4", "k", "(", "3", "8", "4", "0", ")", "2", "4">>, <<"1", "0", "8", "0", "p", "2", "5">>, <<"1", "0", "8", "0", "p", "3", "0">>, <<"2", "0", "4", "8", "x", "1", "0", "8", "0", " ", "p", "2", "4">>, <<"2", "0", "4", "8", "x", "1", "0", "8", "0", " ", "p", "2", "5">>, <<"2", "0", "4", "8", "x", "1", "0", "8", "0", " ", "p", "3", "0">>, <<"2", "0", "4", "8", "x", "1", "0", "8", "0", " ", "p", "5", "0">>, <<"2", "0", "4", "8", "x", "1", "0", "8", "0", " ", "p", "6", "0">>, <<"V", "G", "A", "(", "6", "4", "0", "x", "4", "8", "0", ")">>, <<"S", "V", "G", "A", "(", "8", "0", "0", "x", "6", "0", "0", ")">>, <<"W", "U", "X", "G", "A", "(", "1", "9", "2", "0", "x", "1", "2", "0", "0", ")">>, <<"U", "X", "G", "A", "(", "1", "6", "0", "0", "x", "1", "2", "0", "0", ")">>, <<"Q", "X", "G", "A">>, <<"W", "Q", "H", "D", "6", "0">>>>, keys |-> <<<<"0", "2">>, <<"0", "3">>, <<"0", "4">>, <<"0", "5">>, <<"0", "8">>, <<"0", "9">>, <<"0", "A">>, <<"0", "B">>, <<"0", "F">>, <<"1", "0">>, <<"1", "1">>, <<"1", "2">>, <<"1", "3">>, <<"1", "4">>, <<"1", "5">>, <<"1", "6">>, <<"1", "7">>, <<"1", "8">>, <<"1", "9">>, <<"1", "C">>, <<"1", "D">>, <<"1", "E">>, <<"1", "F">>, <<"2", "0">>, <<"2", "1">>, <<"2", "2">>, <<"2", "5">>, <<"2", "6">>, <<"2", "C">>, <<"3", "0">>, <<"3", "1">>, <<"3", "D">>>>, fn |-> "-"]],
  [key |-> "IFLT(....)", heads |-> {<<"I", "F", "L", "T">>}, groups |-> <<4>>,
   fmt |-> [type |-> "fn", items |-> <<>>, keys |-> <<>>, fn |-> "hex_to_dec"]],
  [key |-> "IFCM(.)", heads |-> {<<"I", "F", "C", "M">>}, groups |-> <<1>>,
   fmt |-> [type |-> "list", items |-> <<<<"n", "o", "_", "d", "a", "t", "a">>, <<"b", "t", "6", "0", "1">>, <<"b", "t", "7", "0", "9">>, <<"x", "v", "y", "c", "c", "6", "0", "1">>, <<"x", "v", "y", "c", "c", "7", "0", "9">>, <<"s", "y", "c", "c", "6", "0", "1">>, <<"a", "d", "o", "b", "e", "_", "y", "c", "c", "6", "0", "1">>, <<"a", "d", "o", "b", "e", "_", "r", "g", "b">>, <<"b", "t", "2", "0", "2", "0", "_", "c", "l">>, <<"b", "t", "2", "0", "2", "0", "_", "n", "c", "l">>, <<"s", "r", "g", "b">>, <<"d", "c", "i", "_", "p", "3", "_", "d", "6", "5">>, <<"d", "c", "i", "_", "p", "3", "_", "t", "h", "e", "a", "t", "e", "r">>>>, keys |-> <<>>, fn |-> "-"]],
  [key |-> "MD(.+)", heads |-> {<<"M", "D">>}, groups |-> <<0>>,
   fmt |-> [type |-> "fn", items |-> <<>>, keys |-> <<>>, fn |-> "strip"]],
  [key |-> "PMPM(..)", heads |-> {<<"P", "M", "P", "M">>}, groups |-> <<2>>,
   fmt |-> [type |-> "dict", items |-> <<<<"c", "i", "n", "e", "m", "a">>, <<"n", "a", "t", "u", "r", "a", "l">>, <<"f", "r", "a", "m", "e", "_", "a", "d", "a", "p", "t", "_", "h", "d", "r">>, <<"s", "d", "r", "1">>, <<"s", "d", "r", "2">>, <<"h", "d", "r", "1">>, <<"h", "d", "r", "2">>, <<"h", "l", "g">>, <<"h", "d", "r", "1", "0", "+">>, <<"f", "i", "l", "m", "m", "a", "k", "e", "r">>, <<"f", "r", "a", "m", "e", "_", "a", "d", "a", "p", "t", "_", "h", "d", "r", "2">>, <<"v", "i", "v", "i", "d">>>>, keys |-> <<<<"0", "1">>, <<"0", "3">>, <<"0", "B">>, <<"0", "C">>, <<"0", "D">>, <<"0", "E">>, <<"0", "F">>, <<"1", "4">>, <<"1", "5">>, <<"1", "7">>, <<"1", "8">>, <<"1", "B">>>>, fn |-> "-"]],
  [key |-> "PMCT(.)", heads |-> {<<"P", "M", "C", "T">>}, groups |-> <<1>>,
   fmt |-> [type |-> "dict", items |-> <<<<"a", "u", "t", "o">>, <<"s", "d", "r">>, <<"h", "d", "r", "1", "0", "+">>, <<"h", "d", "r", "1", "0">>, <<"h", "l", "g">>>>, keys |-> <<<<"0">>, <<"1">>, <<"2">>, <<"3">>, <<"4">>>>, fn |-> "-"]],
  [key |-> "PMAT(.)", heads |-> {<<"P", "M", "A", "T">>}, groups |-> <<1>>,
   fmt |-> [type |-> "dict", items |-> <<<<"s", "d", "r">>, <<"h", "d", "r", "1", "0", "+">>, <<"h", "d", "r", "1", "0">>, <<"h", "l", "g">>>>, keys |-> <<<<"1">>, <<"2">>, <<"3">>, <<"4">>>>, fn |-> "-"]],
  [key |-> "PMDI(.)", heads |-> {<<"P", "M", "D", "I">>}, groups |-> <<1>>,
   fmt |-> [type |-> "list", items |-> <<<<"o", "f", "f">>, <<"a", "u", "t", "o", "1">>, <<"a", "u", "t", "o", "2">>>>, keys |-> <<>>, fn |-> "-"]],
  [key |-> "PMPR(..)", heads |-> {<<"P", "M", "P", "R">>}, groups |-> <<2>>,
   fmt |-> [type |-> "dict", items |-> <<<<"o", "f", "f">>, <<"f", "i", "l", "m", "1">>, <<"f", "i", "l", "m", "2">>, <<"b", "t", "7", "0", "9">>, <<"c", "i", "n", "e", "m", "a">>, <<"c", "i", "n", "e", "m", "a", "2">>, <<"a", "n", "i", "m", "e">>, <<"a", "n", "i", "m", "e", "2">>, <<"v", "i", "d", "e", "o">>, <<"v", "i", "v", "i", "d">>, <<"h", "d", "r">>, <<"b", "t", "2", "0", "2", "0", "(", "w", "i", "d", "e", ")">>, <<"3", "d">>, <<"t", "h", "x">>, <<"c", "u", "s", "t", "o", "m", "1">>, <<"c", "u", "s", "t", "o", "m", "2">>, <<"c", "u", "s", "t", "o", "m", "3">>, <<"c", "u", "s", "t", "o", "m", "4">>, <<"c", "u", "s", "t", "o", "m", "5">>, <<"d", "c", "i">>, <<"c", "u", "s", "t", "o", "m", "6">>, <<"b", "t", "2", "0", "2", "0", "(", "n", "o", "r", "m", "a", "l", ")">>, <<"o", "f", "f", "(", "w", "i", "d", "e", ")">>, <<"a", "u", "t", "o">>>>, keys |-> <<<<"0", "0">>, <<"0", "1">>, <<"0", "2">>, <<"0", "3">>, <<"0", "4">>, <<"0", "5">>, <<"0", "6">>, <<"0", "7">>, <<"0", "8">>, <<"0", "9">>, <<"0", "A">>, <<"0", "B">>, <<"0", "C">>, <<"0", "D">>, <<"0", "E">>, <<"0", "F">>, <<"1", "0">>, <<"1", "1">>, <<"1", "2">>, <<"2", "1">>, <<"2", "2">>, <<"2", "4">>, <<"2", "5">>, <<"2", "6">>>>, fn |-> "-"]],
  [key |-> "PMCL(..)", heads |-> {<<"P", "M", "C", "L">>}, groups |-> <<2>>,
   fmt |-> [type |-> "dict", items |-> <<<<"5", "5", "0", "0", "k">>, <<"6", "5", "0", "0", "k">>, <<"7", "5", "0", "0", "k">>, <<"9", "3", "0", "0", "k">>, <<"h", "i", "g", "h">>, <<"c", "u", "s", "t", "o", "m", "1">>, <<"c", "u", "s", "t", "o", "m", "2">>, <<"h", "d", "r", "1", "0">>, <<"x", "e", "n", "o", "n", "1">>, <<"x", "e", "n", "o", "n", "2">>, <<"h", "l", "g">>>>, keys |-> <<<<"0", "0">>, <<"0", "2">>, <<"0", "4">>, <<"0", "8">>, <<"0", "9">>, <<"0", "A">>, <<"0", "B">>, <<"0", "C">>, <<"0", "D">>, <<"0", "E">>, <<"1", "4">>>>, fn |-> "-"]],
  [key |-> "PMCC(..)", heads |-> {<<"P", "M", "C", "C">>}, groups |-> <<2>>,
   fmt |-> [type |-> "dict", items |-> <<<<"5", "5", "0", "0", "k">>, <<"6", "5", "0", "0", "k">>, <<"7", "5", "0", "0", "k">>, <<"9", "3", "0", "0", "k">>, <<"h", "i", "g", "h">>, <<"x", "e", "n", "o", "n", "1">>, <<"x", "e", "n", "o", "n", "2">>>>, keys |-> <<<<"0", "0">>, <<"0", "2">>, <<"0", "4">>, <<"0", "8">>, <<"0", "9">>, <<"0", "D">>, <<"0", "E">>>>, fn |-> "-"]],
  [key |-> "PMGT(..)", heads |-> {<<"P", "M", "G", "T">>}, groups |-> <<2>>,
   fmt |-> [type |-> "dict", items |-> <<<<"2", ".", "2">>, <<"c", "i", "n", "e", "m", "a", "1">>, <<"c", "i", "n", "e", "m", "a", "2">>, <<"c", "u", "s", "t", "o", "m", "1">>, <<"c", "u", "s", "t", "o", "m", "2">>, <<"c", "u", "s", "t", "o", "m", "3">>, <<"h", "d", "r", "_", "h", "l", "g">>, <<"2", ".", "4">>, <<"2", ".", "6">>, <<"f", "i", "l", "m", "1">>, <<"f", "i", "l", "m", "2">>, <<"h", "d", "r", "_", "p", "q">>, <<"p", "a", "n", "a", "_", "p", "q">>, <<"t", "h", "x">>, <<"h", "d", "r", "_", "a", "u", "t", "o">>>>, keys |-> <<<<"0", "0">>, <<"0", "1">>, <<"0", "2">>, <<"0", "4">>, <<"0", "5">>, <<"0", "6">>, <<"0", "7">>, <<"0", "8">>, <<"0", "9">>, <<"0", "A">>, <<"0", "B">>, <<"0", "C">>, <<"0", "D">>, <<"1", "0">>, <<"1", "5">>>>, fn |-> "-"]],
  [key |-> "PM(?:CB|LL|US)(.)", heads |-> {<<"P", "M", "C", "B">>, <<"P", "M", "L", "L">>, <<"P", "M", "U", "S">>}, groups |-> <<1>>,
   fmt |-> [type |-> "list", items |-> <<<<"o", "f", "f">>, <<"o", "n">>>>, keys |-> <<>>, fn |-> "-"]],
  [key |-> "PMCM(.)", heads |-> {<<"P", "M", "C", "M">>}, groups |-> <<1>>,
   fmt |-> [type |-> "list", items |-> <<<<"o", "f", "f">>, None, None, <<"l", "o", "w">>, <<"h", "i", "g", "h">>, <<"i", "n", "v", "e", "r", "s", "e", "_", "t", "e", "l", "e", "c", "i", "n", "e">>>>, keys |-> <<>>, fn |-> "-"]],
  [key |-> "PMME(.)", heads |-> {<<"P", "M", "M", "E">>}, groups |-> <<1>>,
   fmt |-> [type |-> "list", items |-> <<<<"o", "f", "f">>, <<"l", "o", "w">>, <<"h", "i", "g", "h">>>>, keys |-> <<>>, fn |-> "-"]],
  [key |-> "PMLP(.)", heads |-> {<<"P", "M", "L", "P">>}, groups |-> <<1>>,
   fmt |-> [type |-> "list", items |-> <<<<"l", "o", "w">>, <<"m", "e", "d">>, <<"h", "i", "g", "h">>>>, keys |-> <<>>, fn |-> "-"]],
  [key |-> "PMDC(.)", heads |-> {<<"P", "M", "D", "C">>}, groups |-> <<1>>,
   fmt |-> [type |-> "list", items |-> <<<<"o", "f", "f">>, <<"l", "o", "w">>, <<"h", "i", "g", "h">>, <<"b", "a", "l", "a", "n", "c", "e", "d">>>>, keys |-> <<>>, fn |-> "-"]],
  [key |-> "PMGM(.)", heads |-> {<<"P", "M", "G", "M">>}, groups |-> <<1>>,
   fmt |-> [type |-> "list", items |-> <<<<"s", "t", "a", "n", "d", "a", "r", "d">>, <<"h", "i", "g", "h", "-", "r", "e", "s">>>>, keys |-> <<>>, fn |-> "-"]],
  [key |-> "ISIL(.)", heads |-> {<<"I", "S", "I", "L">>}, groups |-> <<1>>,
   fmt |-> [type |-> "list", items |-> <<<<"s", "t", "a", "n", "d", "a", "r", "d">>, <<"e", "n", "h", "a", "n", "c", "e", "d">>, <<"s", "u", "p", "e", "r", "_", "w", "h", "i", "t", "e">>, <<"a", "u", "t", "o">>>>, keys |-> <<>>, fn |-> "-"]],
  [key |-> "ISHS(.)", heads |-> {<<"I", "S", "H", "S">>}, groups |-> <<1>>,
   fmt |-> [type |-> "list", items |-> <<<<"a", "u", "t", "o">>, <<"y", "c", "b", "c", "r", "(", "4", ":", "4", ":", "4", ")">>, <<"y", "c", "b", "c", "r", "(", "4", ":", "2", ":", "2", ")">>, <<"r", "g", "b">>>>, keys |-> <<>>, fn |-> "-"]],
  [key |-> "IS3D(.)", heads |-> {<<"I", "S", "3", "D">>}, groups |-> <<1>>,
   fmt |-> [type |-> "list", items |-> <<<<"2", "d">>, <<"a", "u", "t", "o">>, None, <<"s", "i", "d", "e", "_", "b", "y", "_", "s", "i", "d", "e">>, <<"t", "o", "p", "_", "b", "o", "t", "t", "o", "m">>>>, keys |-> <<>>, fn |-> "-"]],
  [key |-> "ISAS(.)", heads |-> {<<"I", "S", "A", "S">>}, groups |-> <<1>>,
   fmt |-> [type |-> "list", items |-> <<None, None, <<"z", "o", "o", "m">>, <<"a", "u", "t", "o">>, <<"n", "a", "t", "i", "v", "e">>>>, keys |-> <<>>, fn |-> "-"]],
  [key |-> "ISMA(.)", heads |-> {<<"I", "S", "M", "A">>}, groups |-> <<1>>,
   fmt |-> [type |-> "list", items |-> <<None, <<"o", "n">>, <<"o", "f", "f">>>>, keys |-> <<>>, fn |-> "-"]],
  [key |-> "IN(?:FN|FF|ZT|ZW|SL|SR|SU|SD)(.)", heads |-> {<<"I", "N", "F", "N">>, <<"I", "N", "F", "F">>, <<"I", "N", "Z", "T">>, <<"I", "N", "Z", "W">>, <<"I", "N", "S", "L">>, <<"I", "N", "S", "R">>, <<"I", "N", "S", "U">>, <<"I", "N", "S", "D">>}, groups |-> <<1>>,
   fmt |-> [type |-> "list", items |-> <<<<"s", "t", "o", "p">>, <<"s", "t", "a", "r", "t">>>>, keys |-> <<>>, fn |-> "-"]],
  [key |-> "IN(?:IP|LL|SC|HA)(.)", heads |-> {<<"I", "N", "I", "P">>, <<"I", "N", "L", "L">>, <<"I", "N", "S", "C">>, <<"I", "N", "H", "A">>}, groups |-> <<1>>,
   fmt |-> [type |-> "list", items |-> <<<<"o", "f", "f">>, <<"o", "n">>>>, keys |-> <<>>, fn |-> "-"]],
  [key |-> "INIS(.)", heads |-> {<<"I", "N", "I", "S">>}, groups |-> <<1>>,
   fmt |-> [type |-> "list", items |-> <<<<"f", "r", "o", "n", "t">>, <<"f", "r", "o", "n", "t", "_", "c", "e", "i", "l", "i", "n", "g">>, <<"r", "e", "a", "r">>, <<"r", "e", "a", "r", "_", "c", "e", "i", "l", "i", "n", "g">>>>, keys |-> <<>>, fn |-> "-"]],
  [key |-> "INVS(.)", heads |-> {<<"I", "N", "V", "S">>}, groups |-> <<1>>,
   fmt |-> [type |-> "list", items |-> <<<<"o", "f", "f">>, <<"a">>, <<"b">>, <<"c">>, <<"d">>>>, keys |-> <<>>, fn |-> "-"]],
  [key |-> "DSBC(.)", heads |-> {<<"D", "S", "B", "C">>}, groups |-> <<1>>,
   fmt |-> [type |-> "list", items |-> <<<<"b", "l", "u", "e">>, <<"b", "l", "a", "c", "k">>>>, keys |-> <<>>, fn |-> "-"]],
  [key |-> "DSMP(.)", heads |-> {<<"D", "S", "M", "P">>}, groups |-> <<1>>,
   fmt |-> [type |-> "list", items |-> <<<<"l", "e", "f", "t", "-", "t", "o", "p">>, <<"r", "i", "g", "h", "t", "-", "t", "o", "p">>, <<"c", "e", "n", "t", "e", "r">>, <<"l", "e", "f", "t", "-", "b", "o", "t", "t", "o", "m">>, <<"r", "i", "g", "h", "t", "-", "b", "o", "t", "t", "o", "m">>, <<"l", "e", "f", "t">>, <<"r", "i", "g", "h", "t">>>>, keys |-> <<>>, fn |-> "-"]],
  [key |-> "DS(?:SD|LO)(.)", heads |-> {<<"D", "S", "S", "D">>, <<"D", "S", "L", "O">>}, groups |-> <<1>>,
   fmt |-> [type |-> "list", items |-> <<<<"o", "f", "f">>, <<"o", "n">>>>, keys |-> <<>>, fn |-> "-"]],
  [key |-> "FUTR(.)", heads |-> {<<"F", "U", "T", "R">>}, groups |-> <<1>>,
   fmt |-> [type |-> "list", items |-> <<<<"o", "f", "f">>, <<"p", "o", "w", "e", "r">>, <<"a", "n", "a", "m", "o">>, <<"i", "n", "s", "1">>, <<"i", "n", "s", "2">>, <<"i", "n", "s", "3">>, <<"i", "n", "s", "4">>, <<"i", "n", "s", "5">>, <<"i", "n", "s", "6">>, <<"i", "n", "s", "7">>, <<"i", "n", "s", "8">>, <<"i", "n", "s", "9">>, <<"i", "n", "s", "1", "0">>>>, keys |-> <<>>, fn |-> "-"]],
  [key |-> "FUOT(.)", heads |-> {<<"F", "U", "O", "T">>}, groups |-> <<1>>,
   fmt |-> [type |-> "list", items |-> <<<<"o", "f", "f">>, <<"1", "h", "o", "u", "r">>, <<"2", "h", "o", "u", "r">>, <<"3", "h", "o", "u", "r">>, <<"4", "h", "o", "u", "r">>>>, keys |-> <<>>, fn |-> "-"]],
  [key |-> "FU(?:EM|CF)(.)", heads |-> {<<"F", "U", "E", "M">>, <<"F", "U", "C", "F">>}, groups |-> <<1>>,
   fmt |-> [type |-> "list", items |-> <<<<"o", "f", "f">>, <<"o", "n">>>>, keys |-> <<>>, fn |-> "-"]],
  [key |-> "IFDC(.)", heads |-> {<<"I", "F", "D", "C">>}, groups |-> <<1>>,
   fmt |-> [type |-> "list", items |-> <<<<"8", "b", "i", "t">>, <<"1", "0", "b", "i", "t">>, <<"1", "2", "b", "i", "t">>>>, keys |-> <<>>, fn |-> "-"]],
  [key |-> "IFXV(.)", heads |-> {<<"I", "F", "X", "V">>}, groups |-> <<1>>,
   fmt |-> [type |-> "list", items |-> <<<<"r", "g", "b">>, <<"y", "u", "v">>>>, keys |-> <<>>, fn |-> "-"]],
  [key |-> "IFCM(.)", heads |-> {<<"I", "F", "C", "M">>}, groups |-> <<1>>,
   fmt |-> [type |-> "list", items |-> <<<<"n", "o", "d", "a", "t", "a">>, <<"b", "t", "6", "0", "1">>, <<"b", "t", "7", "0", "9">>, <<"x", "v", "y", "c", "c", "6", "0", "1">>, <<"x", "v", "y", "c", "c", "7", "0", "9">>, <<"s", "y", "c", "c", "6", "0", "1">>, <<"a", "d", "o", "b", "e", "_", "y", "c", "c", "6", "0", "1">>, <<"a", "d", "o", "b", "e", "_", "r", "g", "b">>, <<"b", "t", "2", "0", "2", "0", "(", "c", "o", "n", "s", "t", "a", "n", "t", "_", "l", "u", "m", "i", "n", "a", "n", "c", "e", ")">>, <<"b", "t", "2", "0", "2", "0", "(", "n", "o", "n", "-", "c", "o", "n", "s", "t", "a", "n", "t", "_", "l", "u", "m", "i", "n", "a", "n", "c", "e", ")">>, <<"s", "r", "g", "b">>>>, keys |-> <<>>, fn |-> "-"]],
  [key |-> "IFHR(.)", heads |-> {<<"I", "F", "H", "R">>}, groups |-> <<1>>,
   fmt |-> [type |-> "dict", items |-> <<<<"s", "d", "r">>, <<"h", "d", "r">>, <<"s", "m", "p", "t", "e", "_", "s", "t", "_", "2", "0", "8", "4">>, <<"h", "y", "b", "r", "i", "d", "_", "l", "o", "g">>, <<"n", "o", "n", "e">>>>, keys |-> <<<<"0">>, <<"1">>, <<"2">>, <<"3">>, <<"F">>>>, fn |-> "-"]],
  [key |-> "PMHL(.)", heads |-> {<<"P", "M", "H", "L">>}, groups |-> <<1>>,
   fmt |-> [type |-> "list", items |-> <<<<"a", "u", "t", "o">>, <<"-", "2">>, <<"-", "1">>, <<"0">>, <<"1">>, <<"2">>>>, keys |-> <<>>, fn |-> "-"]],
  [key |-> "PMHP(.)", heads |-> {<<"P", "M", "H", "P">>}, groups |-> <<1>>,
   fmt |-> [type |-> "list", items |-> <<<<"s", "t", "a", "t", "i", "c">>, <<"f", "r", "a", "m", "e">>, <<"s", "c", "e", "n", "e">>>>, keys |-> <<>>, fn |-> "-"]],
  [key |-> "PMNM(.)", heads |-> {<<"P", "M", "N", "M">>}, groups |-> <<1>>,
   fmt |-> [type |-> "list", items |-> <<<<"o", "f", "f">>, <<"o", "n">>>>, keys |-> <<>>, fn |-> "-"]],
  [key |-> "PMNL(.)", heads |-> {<<"P", "M", "N", "L">>}, groups |-> <<1>>,
   fmt |-> [type |-> "list", items |-> <<<<"r", "e", "s", "e", "r", "v", "e", "d">>, <<"l", "o", "w">>, <<"m", "e", "d", "i", "u", "m">>, <<"h", "i", "g", "h">>>>, keys |-> <<>>, fn |-> "-"]],
  [key |-> "PMNP(.)", heads |-> {<<"P", "M", "N", "P">>}, groups |-> <<1>>,
   fmt |-> [type |-> "list", items |-> <<<<"-">>, <<"s", "t", "a", "r", "t">>>>, keys |-> <<>>, fn |-> "-"]],
  [key |-> "LSDS(.)", heads |-> {<<"L", "S", "D", "S">>}, groups |-> <<1>>,
   fmt |-> [type |-> "list", items |-> <<<<"o", "f", "f">>, <<"o", "n">>>>, keys |-> <<>>, fn |-> "-"]],
  [key |-> "LSMA(.+)", heads |-> {<<"L", "S", "M", "A">>}, groups |-> <<0>>,
   fmt |-> [type |-> "fn", items |-> <<>>, keys |-> <<>>, fn |-> "mac"]],
  [key |-> "LSIP(..)(..)(..)(..)", heads |-> {<<"L", "S", "I", "P">>}, groups |-> <<2, 2, 2, 2>>,
   fmt |-> [type |-> "fn", items |-> <<>>, keys |-> <<>>, fn |-> "ip"]]
  >>

ConstAttrs ==
  <<
  <<<<"P", "O", "W", "E", "R">>, <<"p", "o", "w", "e", "r">>>>,
  <<<<"O", "F", "F">>, <<"o", "f", "f">>>>,
  <<<<"S", "T", "A", "N", "D", "B", "Y">>, <<"s", "t", "a", "n", "d", "b", "y">>>>,
  <<<<"O", "N">>, <<"o", "n">>>>,
  <<<<"W", "A", "R", "M", "I", "N", "G">>, <<"w", "a", "r", "m", "i", "n", "g">>>>,
  <<<<"C", "O", "O", "L", "I", "N", "G">>, <<"c", "o", "o", "l", "i", "n", "g">>>>,
  <<<<"E", "R", "R", "O", "R">>, <<"e", "r", "r", "o", "r">>>>,
  <<<<"I", "N", "P", "U", "T">>, <<"i", "n", "p", "u", "t">>>>,
  <<<<"H", "D", "M", "I", "1">>, <<"h", "d", "m", "i", "1">>>>,
  <<<<"H", "D", "M", "I", "2">>, <<"h", "d", "m", "i", "2">>>>,
  <<<<"S", "O", "U", "R", "C", "E">>, <<"s", "o", "u", "r", "c", "e">>>>,
  <<<<"N", "O", "S", "I", "G", "N", "A", "L">>, <<"n", "o", "s", "i", "g", "n", "a", "l">>>>,
  <<<<"S", "I", "G", "N", "A", "L">>, <<"s", "i", "g", "n", "a", "l">>>>,
  <<<<"I", "F", "L", "T">>, <<"I", "F", "L", "T">>>>,
  <<<<"I", "F", "I", "N">>, <<"I", "F", "I", "N">>>>,
  <<<<"I", "F", "I", "S">>, <<"I", "F", "I", "S">>>>,
  <<<<"I", "F", "C", "M">>, <<"I", "F", "C", "M">>>>,
  <<<<"M", "O", "D", "E", "L">>, <<"m", "o", "d", "e", "l">>>>,
  <<<<"P", "M", "P", "M">>, <<"P", "M", "P", "M">>>>,
  <<<<"P", "M", "C", "T">>, <<"P", "M", "C", "T">>>>,
  <<<<"P", "M", "A", "T">>, <<"P", "M", "A", "T">>>>,
  <<<<"P", "M", "C", "V">>, <<"P", "M", "C", "V">>>>,
  <<<<"P", "M", "D", "C">>, <<"P", "M", "D", "C">>>>,
  <<<<"a", "u", "t", "o", "_", "c", "o", "n", "t", "e", "n", "t", "_", "t", "y", "p", "e">>, <<"a", "u", "t", "o", "_", "c", "o", "n", "t", "e", "n", "t", "_", "t", "y", "p", "e">>>>,
  <<<<"R", "E", "M", "O", "T", "E", "_", "S", "T", "A", "N", "D", "B", "Y">>, <<"7", "3", "0", "6">>>>,
  <<<<"R", "E", "M", "O", "T", "E", "_", "O", "N">>, <<"7", "3", "0", "5">>>>,
  <<<<"R", "E", "M", "O", "T", "E", "_", "M", "E", "N", "U">>, <<"7", "3", "2", "E">>>>,
  <<<<"R", "E", "M", "O", "T", "E", "_", "U", "P">>, <<"7", "3", "0", "1">>>>,
  <<<<"R", "E", "M", "O", "T", "E", "_", "D", "O", "W", "N">>, <<"7", "3", "0", "2">>>>,
  <<<<"R", "E", "M", "O", "T", "E", "_", "L", "E", "F", "T">>, <<"7", "3", "3", "6">>>>,
  <<<<"R", "E", "M", "O", "T", "E", "_", "R", "I", "G", "H", "T">>, <<"7", "3", "3", "4">>>>,
  <<<<"R", "E", "M", "O", "T", "E", "_", "O", "K">>, <<"7", "3", "2", "F">>>>,
  <<<<"R", "E", "M", "O", "T", "E", "_", "B", "A", "C", "K">>, <<"7", "3", "0", "3">>>>,
  <<<<"R", "E", "M", "O", "T", "E", "_", "M", "P", "C">>, <<"7", "3", "F", "0">>>>,
  <<<<"R", "E", "M", "O", "T", "E", "_", "H", "I", "D", "E">>, <<"7", "3", "1", "D">>>>,
  <<<<"R", "E", "M", "O", "T", "E", "_", "I", "N", "F", "O">>, <<"7", "3", "7", "4">>>>,
  <<<<"R", "E", "M", "O", "T", "E", "_", "I", "N", "P", "U", "T">>, <<"7", "3", "0", "8">>>>,
  <<<<"R", "E", "M", "O", "T", "E", "_", "A", "D", "V", "A", "N", "C", "E", "D", "_", "M", "E", "N", "U">>, <<"7", "3", "7", "3">>>>,
  <<<<"R", "E", "M", "O", "T", "E", "_", "P", "I", "C", "T", "U", "R", "E", "_", "M", "O", "D", "E">>, <<"7", "3", "F", "4">>>>,
  <<<<"R", "E", "M", "O", "T", "E", "_", "C", "O", "L", "O", "R", "_", "P", "R", "O", "F", "I", "L", "E">>, <<"7", "3", "8", "8">>>>,
  <<<<"R", "E", "M", "O", "T", "E", "_", "L", "E", "N", "S", "_", "C", "O", "N", "T", "R", "O", "L">>, <<"7", "3", "3", "0">>>>,
  <<<<"R", "E", "M", "O", "T", "E", "_", "S", "E", "T", "T", "I", "N", "G", "_", "M", "E", "M", "O", "R", "Y">>, <<"7", "3", "D", "4">>>>,
  <<<<"R", "E", "M", "O", "T", "E", "_", "G", "A", "M", "M", "A", "_", "S", "E", "T", "T", "I", "N", "G", "S">>, <<"7", "3", "F", "5">>>>,
  <<<<"R", "E", "M", "O", "T", "E", "_", "C", "M", "D">>, <<"7", "3", "8", "A">>>>,
  <<<<"R", "E", "M", "O", "T", "E", "_", "M", "O", "D", "E", "_", "1">>, <<"7", "3", "D", "8">>>>,
  <<<<"R", "E", "M", "O", "T", "E", "_", "M", "O", "D", "E", "_", "2">>, <<"7", "3", "D", "9">>>>,
  <<<<"R", "E", "M", "O", "T", "E", "_", "M", "O", "D", "E", "_", "3">>, <<"7", "3", "D", "A">>>>,
  <<<<"R", "E", "M", "O", "T", "E", "_", "H", "D", "M", "I", "_", "1">>, <<"7", "3", "7", "0">>>>,
  <<<<"R", "E", "M", "O", "T", "E", "_", "H", "D", "M", "I", "_", "2">>, <<"7", "3", "7", "1">>>>,
  <<<<"R", "E", "M", "O", "T", "E", "_", "L", "E", "N", "S", "_", "A", "P">>, <<"7", "3", "2", "0">>>>,
  <<<<"R", "E", "M", "O", "T", "E", "_", "A", "N", "A", "M", "O">>, <<"7", "3", "C", "5">>>>,
  <<<<"R", "E", "M", "O", "T", "E", "_", "G", "A", "M", "M", "A">>, <<"7", "3", "7", "5">>>>,
  <<<<"R", "E", "M", "O", "T", "E", "_", "C", "O", "L", "O", "R", "_", "T", "E", "M", "P">>, <<"7", "3", "7", "6">>>>,
  <<<<"R", "E", "M", "O", "T", "E", "_", "3", "D", "_", "F", "O", "R", "M", "A", "T">>, <<"7", "3", "D", "6">>>>,
  <<<<"R", "E", "M", "O", "T", "E", "_", "P", "I", "C", "_", "A", "D", "J">>, <<"7", "3", "7", "2">>>>,
  <<<<"R", "E", "M", "O", "T", "E", "_", "N", "A", "T", "U", "R", "A", "L">>, <<"7", "3", "6", "A">>>>,
  <<<<"R", "E", "M", "O", "T", "E", "_", "C", "I", "N", "E", "M", "A">>, <<"7", "3", "6", "8">>>>
  >>

REMOTE_BUTTON_MAP ==
  <<
  <<<<"s", "t", "a", "n", "d", "b", "y">>, <<"7", "3", "0", "6">>>>,
  <<<<"o", "n">>, <<"7", "3", "0", "5">>>>,
  <<<<"m", "e", "n", "u">>, <<"7", "3", "2", "E">>>>,
  <<<<"u", "p">>, <<"7", "3", "0", "1">>>>,
  <<<<"d", "o", "w", "n">>, <<"7", "3", "0", "2">>>>,
  <<<<"l", "e", "f", "t">>, <<"7", "3", "3", "6">>>>,
  <<<<"r", "i", "g", "h", "t">>, <<"7", "3", "3", "4">>>>,
  <<<<"o", "k">>, <<"7", "3", "2", "F">>>>,
  <<<<"b", "a", "c", "k">>, <<"7", "3", "0", "3">>>>,
  <<<<"m", "p", "c">>, <<"7", "3", "F", "0">>>>,
  <<<<"h", "i", "d", "e">>, <<"7", "3", "1", "D">>>>,
  <<<<"i", "n", "f", "o">>, <<"7", "3", "7", "4">>>>,
  <<<<"i", "n", "p", "u", "t">>, <<"7", "3", "0", "8">>>>,
  <<<<"a", "d", "v", "a", "n", "c", "e", "d", "_", "m", "e", "n", "u">>, <<"7", "3", "7", "3">>>>,
  <<<<"p", "i", "c", "t", "u", "r", "e", "_", "m", "o", "d", "e">>, <<"7", "3", "F", "4">>>>,
  <<<<"c", "o", "l", "o", "r", "_", "p", "r", "o", "f", "i", "l", "e">>, <<"7", "3", "8", "8">>>>,
  <<<<"l", "e", "n", "s", "_", "c", "o", "n", "t", "r", "o", "l">>, <<"7", "3", "3", "0">>>>,
  <<<<"s", "e", "t", "t", "i", "n", "g", "_", "m", "e", "m", "o", "r", "y">>, <<"7", "3", "D", "4">>>>,
  <<<<"g", "a", "m", "m", "a", "_", "s", "e", "t", "t", "i", "n", "g", "s">>, <<"7", "3", "F", "5">>>>,
  <<<<"c", "m", "d">>, <<"7", "3", "8", "A">>>>,
  <<<<"m", "o", "d", "e", "_", "1">>, <<"7", "3", "D", "8">>>>,
  <<<<"m", "o", "d", "e", "_", "2">>, <<"7", "3", "D", "9">>>>,
  <<<<"m", "o", "d", "e", "_", "3">>, <<"7", "3", "D", "A">>>>,
  <<<<"h", "d", "m", "i", "_", "1">>, <<"7", "3", "7", "0">>>>,
  <<<<"h", "d", "m", "i", "_", "2">>, <<"7", "3", "7", "1">>>>,
  <<<<"l", "e", "n", "s", "_", "a", "p">>, <<"7", "3", "2", "0">>>>,
  <<<<"a", "n", "a", "m", "o">>, <<"7", "3", "C", "5">>>>,
  <<<<"g", "a", "m", "m", "a">>, <<"7", "3", "7", "5">>>>,
  <<<<"c", "o", "l", "o", "r", "_", "t", "e", "m", "p">>, <<"7", "3", "7", "6">>>>,
  <<<<"3", "d", "_", "f", "o", "r", "m", "a", "t">>, <<"7", "3", "D", "6">>>>,
  <<<<"p", "i", "c", "_", "a", "d", "j">>, <<"7", "3", "7", "2">>>>,
  <<<<"n", "a", "t", "u", "r", "a", "l">>, <<"7", "3", "6", "A">>>>,
  <<<<"c", "i", "n", "e", "m", "a">>, <<"7", "3", "6", "8">>>>
  >>

--------------------------------------------------------------------------
\* The formatter table as Python builds it.

\* A dict display with a repeated key keeps the position of the first
\* occurrence and the value of the last one.
DictLiteral(entries) ==
  LET n == Len(entries)
      firsts == {i \in 1..n : \A j \in 1..(i - 1) : entries[j].key # entries[i].key}
      nth(k) == CHOOSE i \in firsts : Cardinality({j \in firsts : j <= i}) = k
      lastOf(i) == CHOOSE j \in 1..n :
                     /\ entries[j].key = entries[i].key
                     /\ \A m \in (j + 1)..n : entries[m].key # entries[i].key
  IN [k \in 1..Cardinality(firsts) |-> entries[lastOf(nth(k))]]

formatters == DictLiteral(FormatterEntries)

--------------------------------------------------------------------------
\* Text helpers (str methods and int(x, 16) as Python computes them).

NL == "\n"
UpperHex == <<"0", "1", "2", "3", "4", "5", "6", "7", "8", "9", "A", "B", "C", "D", "E", "F">>
LowerHex == <<"0", "1", "2", "3", "4", "5", "6", "7", "8", "9", "a", "b", "c", "d", "e", "f">>
IsHexDigit(c) == \E i \in 1..16 : UpperHex[i] = c \/ LowerHex[i] = c
HexValue(c) == (CHOOSE i \in 1..16 : UpperHex[i] = c \/ LowerHex[i] = c) - 1
IsSpace(c) == c \in {" ", NL}

IsPrefix(p, s) == Len(p) <= Len(s) /\ SubSeq(s, 1, Len(p)) = p
Drop(s, n) == SubSeq(s, n + 1, Len(s))

\* str.strip()
RECURSIVE LStrip(_)
LStrip(s) == IF s # <<>> /\ IsSpace(Head(s)) THEN LStrip(Tail(s)) ELSE s
RECURSIVE RStrip(_)
RStrip(s) == IF s # <<>> /\ IsSpace(s[Len(s)]) THEN RStrip(SubSeq(s, 1, Len(s) - 1)) ELSE s
Strip(s) == RStrip(LStrip(s))

\* The digits of int(x, 16) after the sign and the 0x prefix: hex digits with
\* single underscores between them.
DigitsOk(d) ==
  /\ d # <<>>
  /\ \A i \in 1..Len(d) : IsHexDigit(d[i]) \/ d[i] = "_"
  /\ d[Len(d)] # "_"
  /\ \A i \in 1..Len(d) - 1 : ~(d[i] = "_" /\ d[i + 1] = "_")

RECURSIVE DigitsValue(_, _)
DigitsValue(d, acc) ==
  IF d = <<>> THEN acc
  ELSE IF Head(d) = "_" THEN DigitsValue(Tail(d), acc)
  ELSE DigitsValue(Tail(d), 16 * acc + HexValue(Head(d)))

\* str.isdigit() and int(s) for a text of decimal digits
PyIsDigit(s) == s # <<>> /\ \A i \in 1..Len(s) : \E d \in 1..10 : UpperHex[d] = s[i]
RECURSIVE PyInt(_)
PyInt(s) == IF s = <<>> THEN 0 ELSE 10 * PyInt(SubSeq(s, 1, Len(s) - 1)) + HexValue(s[Len(s)])

\* int(x) in place of int(x, 16): the text read as a decimal numeral.
PyInt16AsDecimal(x) == [ok |-> PyIsDigit(x), n |-> IF PyIsDigit(x) THEN PyInt(x) ELSE 0]

\* int(x, 16): [ok |-> FALSE] stands for ValueError.
PyInt16(x) ==
  LET t == Strip(x)
      signed == t # <<>> /\ Head(t) \in {"+", "-"}
      u == IF signed THEN Tail(t) ELSE t
      prefixed == Len(u) >= 2 /\ u[1] = "0" /\ u[2] \in {"x", "X"}
      d == IF prefixed THEN Drop(u, 2) ELSE u
      ok == DigitsOk(d) /\ (prefixed \/ Head(d) # "_")
  IN IF ~ok THEN [ok |-> FALSE, n |-> 0]
     ELSE [ok |-> TRUE,
           n |-> IF signed /\ Head(t) = "-" THEN 0 - DigitsValue(d, 0) ELSE DigitsValue(d, 0)]

\* str(n) for an integer n
RECURSIVE NatStr(_)
NatStr(n) == IF n < 10 THEN <<UpperHex[n + 1]>> ELSE Append(NatStr(n \div 10), UpperHex[(n % 10) + 1])
PyStr(n) == IF n < 0 THEN <<"-">> \o NatStr(0 - n) ELSE NatStr(n)

\* r[1].replace(" ", "-") followed by re.sub(r"-+", "-", ...)
RECURSIVE SquashDashes(_)
SquashDashes(s) ==
  IF s = <<>> THEN <<>>
  ELSE LET c == IF Head(s) = " " THEN "-" ELSE Head(s)
           rest == SquashDashes(Tail(s))
       IN IF c = "-" /\ rest # <<>> /\ Head(rest) = "-" THEN rest ELSE <<c>> \o rest

--------------------------------------------------------------------------
\* JvcCommand.response: re.search("^" + pat + "$", res) and the decoders.

RECURSIVE Sum(_)
Sum(ws) == IF ws = <<>> THEN 0 ELSE Head(ws) + Sum(Tail(ws))

\* "." matches any character but a newline.
Dots(s) == \A i \in 1..Len(s) : s[i] # NL

\* The groups captured when head h and the groups of pat take all of s.
\* A width of 0 stands for (.+).
RECURSIVE Cut(_, _)
Cut(ws, s) ==
  IF ws = <<>> THEN <<>>
  ELSE LET w == IF Head(ws) = 0 THEN Len(s) ELSE Head(ws)
       IN <<SubSeq(s, 1, w)>> \o Cut(Tail(ws), Drop(s, w))

Fits(pat, h, s) ==
  /\ IsPrefix(h, s)
  /\ Dots(Drop(s, Len(h)))
  /\ IF pat.groups = <<0>> THEN Len(s) > Len(h)
     ELSE Len(s) = Len(h) + Sum(pat.groups)

WholeMatch(pat, s) ==
  IF \E h \in pat.heads : Fits(pat, h, s)
  THEN LET h == CHOOSE h \in pat.heads : Fits(pat, h, s)
       IN [ok |-> TRUE, g |-> Cut(pat.groups, Drop(s, Len(h)))]
  ELSE [ok |-> FALSE, g |-> <<>>]

\* re.search(r"^" + pat + r"$", res): "$" matches at the end of the text and
\* before a newline that ends it.
Search(pat, res) ==
  IF WholeMatch(pat, res).ok THEN WholeMatch(pat, res)
  ELSE IF res # <<>> /\ res[Len(res)] = NL THEN WholeMatch(pat, SubSeq(res, 1, Len(res) - 1))
  ELSE [ok |-> FALSE, g |-> <<>>]

\* What reading the property gives: a value (text or None), or an exception
\* that leaves the property.
Returns(v) == [exc |-> "none", val |-> v]
Raises(e) == [exc |-> e, val |-> None]

\* A list decoder that takes a reserved (None) entry for a failure and falls
\* back to the raw text.
ListDecodeReservedAsRaw(fmt, m, val) ==
  LET i == PyInt16(m[1])
      n == Len(fmt.items)
  IN IF ~i.ok THEN Returns(val)
     ELSE IF i.n >= n \/ i.n < 0 - n THEN Raises("IndexError")
     ELSE LET v == fmt.items[IF i.n >= 0 THEN i.n + 1 ELSE n + i.n + 1]
          IN IF v = None THEN Returns(val) ELSE Returns(v)

\* fmt[int(m[1], 16)] for a list, with Python's negative indexing;
\* ValueError and KeyError are caught, IndexError is not.
ListDecode(fmt, m, val) ==
  LET i == PyInt16(m[1])
      n == Len(fmt.items)
  IN IF ~i.ok THEN Returns(val)
     ELSE IF i.n >= n \/ i.n < 0 - n THEN Raises("IndexError")
     ELSE Returns(fmt.items[IF i.n >= 0 THEN i.n + 1 ELSE n + i.n + 1])

\* fmt[m[1]] for a dict; KeyError is caught.
DictDecode(fmt, m, val) ==
  LET hits == {k \in 1..Len(fmt.keys) : fmt.keys[k] = m[1]}
  IN IF hits = {} THEN Returns(val) ELSE Returns(fmt.items[CHOOSE k \in hits : TRUE])

\* A function decoder whose failure is not caught.
FnDecodeUncaught(fmt, m, val) ==
  CASE fmt.fn = "hex_to_dec" ->
         LET i == PyInt16(m[1]) IN IF i.ok THEN Returns(PyStr(i.n)) ELSE Raises("ValueError")
    [] fmt.fn = "strip" -> Returns(Strip(m[1]))
    [] fmt.fn = "mac" -> Returns(SquashDashes(m[1]))
    [] fmt.fn = "ip" ->
         LET a == PyInt16(m[1])
             b == PyInt16(m[2])
             c == PyInt16(m[3])
             d == PyInt16(m[4])
         IN IF a.ok /\ b.ok /\ c.ok /\ d.ok
            THEN Returns(PyStr(a.n) \o <<".">> \o PyStr(b.n) \o <<".">> \o PyStr(c.n) \o <<".">> \o PyStr(d.n))
            ELSE Raises("ValueError")

\* fmt(m) for a lambda; every Exception is caught.
FnDecode(fmt, m, val) ==
  CASE fmt.fn = "hex_to_dec" ->
         LET i == PyInt16(m[1]) IN IF i.ok THEN Returns(PyStr(i.n)) ELSE Returns(val)
    [] fmt.fn = "strip" -> Returns(Strip(m[1]))
    [] fmt.fn = "mac" -> Returns(SquashDashes(m[1]))
    [] fmt.fn = "ip" ->
         LET a == PyInt16(m[1])
             b == PyInt16(m[2])
             c == PyInt16(m[3])
             d == PyInt16(m[4])
         IN IF a.ok /\ b.ok /\ c.ok /\ d.ok
            THEN Returns(PyStr(a.n) \o <<".">> \o PyStr(b.n) \o <<".">> \o PyStr(c.n) \o <<".">> \o PyStr(d.n))
            ELSE Returns(val)

Decode(fmt, m, val) ==
  CASE fmt.type = "list" -> ListDecode(fmt, m, val)
    [] fmt.type = "dict" -> DictDecode(fmt, m, val)
    [] fmt.type = "fn" -> FnDecode(fmt, m, val)

\* The rule the loop over formatters.items() applies to res: the first one, in
\* the table's order, whose anchored pattern matches (0: none does).
MatchedRule(res) ==
  LET hits == {i \in 1..Len(formatters) : Search(formatters[i], res).ok}
  IN IF hits = {} THEN 0 ELSE Min(hits)

\* A getter that decodes the response of an operation command too.
responseWithoutRefCheck(code, is_ref, resp) ==
  IF resp = None THEN Returns(None)
  ELSE LET res == code \o resp
           val == Drop(res, Len(code))
           i == MatchedRule(res)
       IN IF i = 0 THEN Returns(val)
          ELSE Decode(formatters[i].fmt, Search(formatters[i], res).g, val)

\* JvcCommand.response (the getter): code, is_ref and _response are the
\* command's fields.
response(code, is_ref, resp) ==
  IF ~is_ref \/ resp = None THEN Returns(None)
  ELSE LET res == code \o resp
           val == Drop(res, Len(code))
           i == MatchedRule(res)
       IN IF i = 0 THEN Returns(val)
          ELSE Decode(formatters[i].fmt, Search(formatters[i], res).g, val)

--------------------------------------------------------------------------
\* Bounds of the inputs.

MaxLen == 2

HexChars == {UpperHex[i] : i \in 1..16}
\* The characters response texts are drawn from: the hex digits, a lower-case
\* hex digit and a character that is no hex digit.
Alphabet == HexChars \cup {"b", "G"}
CoreChars == {"0", "1", "B", "G"}

RECURSIVE Texts(_, _)
Texts(chars, n) ==
  IF n = 0 THEN {<<>>}
  ELSE LET shorter == Texts(chars, n - 1)
       IN shorter \cup {Append(t, c) : t \in shorter, c \in chars}

AllHeads == UNION {FormatterEntries[i].heads : i \in 1..Len(FormatterEntries)}
AllDictKeys ==
  UNION {{FormatterEntries[i].fmt.keys[k] : k \in 1..Len(FormatterEntries[i].fmt.keys)} :
           i \in 1..Len(FormatterEntries)}

\* The codes a command is constructed with, and the texts attached to it.
Codes == AllHeads \cup {<<"X", "X">>}
\* Texts that end with a line feed, as a caller could attach them.
NewlineEnded == {<<"1", NL>>, <<"0", "B", NL>>}
Responses == Texts(Alphabet, 1) \cup Texts(CoreChars, MaxLen) \cup AllDictKeys \cup NewlineEnded

\* Longer texts for the two codes whose patterns take them: 4-character
\* light-source times (hex numerals, and texts int(x, 16) refuses or reads
\* in another way) and 8-character network addresses.
IFLT == <<"I", "F", "L", "T">>
LSIP == <<"L", "S", "I", "P">>
LightTimeChars == {"0", "1", "9", "F"}
LightTimes == {t \in Texts(LightTimeChars, 4) : Len(t) = 4}
OddLightTimes == {<<"G", "G", "G", "G">>, <<"0", "1", "G", "0">>, <<"0", "x", "1", "F">>,
                  <<"1", "_", "0", "F">>, <<"0", "0", "f", "f">>, <<"0", "a", "1", "F">>,
                  <<"0", "1", "9", "0">>, <<"F", "F", "F", "F">>}
Addresses == {<<"C", "0", "A", "8", "0", "0", "0", "1">>, <<"C", "0", "A", "8", "0", "0", "0", "G">>,
              <<"0", "A", "0", "0", "0", "0", "F", "F">>}
ResponsesFor(c) ==
  Responses \cup (IF c = IFLT THEN LightTimes \cup OddLightTimes ELSE {})
            \cup (IF c = LSIP THEN Addresses ELSE {})

--------------------------------------------------------------------------
VARIABLES
  code, is_ref, _response,  \* JvcCommand's fields
  read,                     \* what the last read of JvcCommand.response gave
  applied,                  \* the rule that read applied (0: none)
  readNoneBefore,           \* a read made before the latest attach gave None
  stored                    \* what the poll did with the value read for IFLT

cmdVars == <<code, is_ref, _response, read, applied, readNoneBefore, stored>>

Unread == [exc |-> "unread", val |-> None]


\* result[const.IFLT] of the poll: not reached, left unset, or an integer
NotReached == <<"not reached">>
Unset == <<"unset">>
--------------------------------------------------------------------------
\* remote.py: resolving a command string to a key code.

LowerAlpha == <<"a", "b", "c", "d", "e", "f", "g", "h", "i", "j", "k", "l", "m",
                "n", "o", "p", "q", "r", "s", "t", "u", "v", "w", "x", "y", "z">>
UpperAlpha == <<"A", "B", "C", "D", "E", "F", "G", "H", "I", "J", "K", "L", "M",
                "N", "O", "P", "Q", "R", "S", "T", "U", "V", "W", "X", "Y", "Z">>
LowerChar(c) == IF \E i \in 1..26 : UpperAlpha[i] = c
                THEN LowerAlpha[CHOOSE i \in 1..26 : UpperAlpha[i] = c] ELSE c
UpperChar(c) == IF \E i \in 1..26 : LowerAlpha[i] = c
                THEN UpperAlpha[CHOOSE i \in 1..26 : LowerAlpha[i] = c] ELSE c
Lower(s) == [i \in 1..Len(s) |-> LowerChar(s[i])]
Upper(s) == [i \in 1..Len(s) |-> UpperChar(s[i])]

Lookup(table, k) == table[CHOOSE i \in 1..Len(table) : table[i][1] = k][2]
Has(table, k) == \E i \in 1..Len(table) : table[i][1] = k

\* A resolution that compares the command as it was spelled.
ResolveCommandAsSpelled(cmd) ==
  LET unknown == [ok |-> FALSE, key_code |-> <<>>]
  IN IF Has(REMOTE_BUTTON_MAP, cmd)
       THEN [ok |-> TRUE, key_code |-> Lookup(REMOTE_BUTTON_MAP, cmd)]
     ELSE IF IsPrefix(<<"r", "e", "m", "o", "t", "e", "_">>, cmd)
       THEN IF Has(REMOTE_BUTTON_MAP, Drop(cmd, 7))
            THEN [ok |-> TRUE, key_code |-> Lookup(REMOTE_BUTTON_MAP, Drop(cmd, 7))]
            ELSE unknown
     ELSE IF Has(ConstAttrs, cmd)
       THEN [ok |-> TRUE, key_code |-> Lookup(ConstAttrs, cmd)]
     ELSE IF Len(cmd) = 4 /\ \A i \in 1..4 : IsHexDigit(cmd[i])
       THEN [ok |-> TRUE, key_code |-> cmd]
     ELSE unknown

\* The body of the for loop of async_send_command up to the key code:
\* [ok |-> FALSE] stands for ValueError.
ResolveCommand(cmd) ==
  LET cmd_lower == Lower(cmd)
      button_name == Drop(cmd_lower, 7)
      unknown == [ok |-> FALSE, key_code |-> <<>>]
  IN IF Has(REMOTE_BUTTON_MAP, cmd_lower)
       THEN [ok |-> TRUE, key_code |-> Lookup(REMOTE_BUTTON_MAP, cmd_lower)]
     ELSE IF IsPrefix(<<"r", "e", "m", "o", "t", "e", "_">>, cmd_lower)
       THEN IF Has(REMOTE_BUTTON_MAP, button_name)
            THEN [ok |-> TRUE, key_code |-> Lookup(REMOTE_BUTTON_MAP, button_name)]
            ELSE unknown
     ELSE IF Has(ConstAttrs, Upper(cmd))
       THEN [ok |-> TRUE, key_code |-> Lookup(ConstAttrs, Upper(cmd))]
     ELSE IF Len(cmd) = 4 /\ \A i \in 1..4 : IsHexDigit(cmd[i])
       THEN [ok |-> TRUE, key_code |-> Upper(cmd)]
     ELSE unknown

--------------------------------------------------------------------------
\* The callers of one projector: async_setup_entry, the coordinator's poll,
\* the remote entity, the select entity and the config flow's get_mac_address.

MaxOps == 2       \* operations started besides async_setup_entry
MaxCancels == 1   \* cancellations delivered to tasks

RemoteTasks == {"r1", "r2"}
Tasks == {"setup", "timer", "flow", "sel"} \cup RemoteTasks

\* An operation is a task in a role; the poll runs as the timer's task, inside
\* async_setup_entry (the first refresh) and inside async_turn_on/off.
NoOp == <<"none", "none">>
DevOf(o) == IF o[2] = "flow" THEN "flow" ELSE "entry"
Devices == {"entry", "flow"}

\* coordinator.py: the reference commands of a poll with the power on
ExtendedRefs == <<"IFLT", "IFIS", "IFIN", "PMCT", "PMAT", "PMPM">>

\* The command strings and the command lists the model hands to
\* async_send_command: a button name, a raw key code, an unknown command.
MENU == <<"m", "e", "n", "u">>
RAW == <<"7", "3", "2", "e">>
BOGUS == <<"b", "o", "g", "u", "s">>
CommandLists ==
  { <<>>, <<MENU>>, <<RAW>>, <<BOGUS>>, <<MENU, RAW>>, <<RAW, MENU>>, <<MENU, BOGUS>>,
    <<BOGUS, MENU>>, <<RAW, BOGUS, MENU>> }

PowerValues == {FormatterEntries[1].fmt.items[i] : i \in 1..Len(FormatterEntries[1].fmt.items)} \cup {None}
ON == <<"o", "n">>

VARIABLES
  pc,               \* where each task is
  kind,             \* the remote operation a remote task runs
  cmds,             \* the commands async_send_command has still to send
  command,          \* async_send_command: the command argument
  keysSent,         \* async_send_command: the device.remote calls made so far
  lockOwner,        \* JvcProjectorRemote._command_lock
  lastCommandTime,  \* JvcProjectorRemote._last_command_time: None or set
  currentActivity,  \* JvcProjectorRemote._current_activity
  loaded,           \* async_setup_entry returned True: the entities exist
  devState,         \* the connection state of each JvcProjector object
  refIdx,           \* the reference command a poll is at
  pollPend,         \* what a poll returns or raises once its finally ran
  pend,             \* the same for a remote operation, setup, get_mac_address
  started,          \* operations started
  cancels,          \* cancellations delivered
  open,             \* devices with a connect call not yet followed by a disconnect call
  cyc,              \* operations between their connect and their disconnect call
  ready,            \* operations whose connect succeeded, with no disconnect of the device since
  poisoned,         \* operations with a timed-out call and no disconnect call of theirs since
  last,             \* the last device call
  fin,              \* the operation that just returned or raised
  err,              \* what the awaited call raised that ends a task's try block
  state,            \* _async_update_data: the power entry of the local "state"
  result            \* _async_update_data: the local "result" (power, light time)

sysVars == <<pc, kind, cmds, command, keysSent, lockOwner, lastCommandTime, currentActivity, loaded,
             devState, refIdx, pollPend, pend, started, cancels, open, cyc, ready,
             poisoned, last, fin, err, state, result>>
pollVars == <<err, state, result>>
keyVars == <<command, keysSent>>
remoteVars == <<kind, cmds, keyVars, lockOwner, lastCommandTime, currentActivity>>
devVars == <<devState, open, cyc, ready, poisoned, last>>

\* What a device call is made with: device.remote gets the key code that the
\* loop's cmd resolved to, the other calls get nothing the model follows.
NoArg == [cmd |-> <<>>, key_code |-> <<>>]

NoCall == [by |-> NoOp, kind |-> "none", wasOpen |-> FALSE,
           others |-> {}, ready |-> FALSE, poisoned |-> FALSE, arg |-> NoArg]
\* A key that a dict has not, the local "state" before get_state returned,
\* and the local "result" before it is built.
Absent == <<"absent">>
NoState == <<"no state">>
NoResult == [power |-> Absent, iflt |-> Absent]

NoFin == [op |-> NoOp, name |-> "none", outcome |-> "none", primary |-> "none",
          connected |-> FALSE, disc |-> FALSE, discRaised |-> FALSE,
          err |-> "none", state |-> NoState, result |-> NoResult, refs |-> 0]

SysInit ==
  /\ pc = [t \in Tasks |-> IF t = "setup" THEN "s_connect" ELSE "idle"]
  /\ kind = [t \in RemoteTasks |-> "none"]
  /\ cmds = [t \in RemoteTasks |-> <<>>]
  /\ command = [t \in RemoteTasks |-> <<>>]
  /\ keysSent = [t \in RemoteTasks |-> <<>>]
  /\ lockOwner = "none"
  /\ lastCommandTime = "None"
  /\ currentActivity = None
  /\ loaded = FALSE
  /\ devState = [d \in Devices |-> "Disconnected"]
  /\ refIdx = [t \in Tasks |-> 0]
  /\ pollPend = [t \in Tasks |-> "none"]
  /\ pend = [t \in Tasks |-> "none"]
  /\ started = 0
  /\ cancels = 0
  /\ open = {}
  /\ cyc = {}
  /\ ready = {}
  /\ poisoned = {}
  /\ last = NoCall
  /\ fin = NoFin
  /\ err = [t \in Tasks |-> "none"]
  /\ state = [t \in Tasks |-> NoState]
  /\ result = [t \in Tasks |-> NoResult]

\* The results an awaited call can have: any of S, and a cancellation of the
\* awaiting task while the budget of cancellations lasts.
Outcomes(S) == S \cup (IF cancels < MaxCancels THEN {"cancelled"} ELSE {})
Counted(res) == cancels' = IF res = "cancelled" THEN cancels + 1 ELSE cancels

\* The device client: connect leads to Ready or Failed, disconnect to
\* Disconnected, and a command on a connection that is not Ready fails.
ConnectState(res) == IF res = "ok" THEN "Ready" ELSE "Failed"
CommandResults(d, S) == IF devState[d] = "Ready" THEN S ELSE {"error"}

\* Operation o calls the device: the call is recorded with what held before it.
DeviceCall(o, call, arg, res) ==
  LET d == DevOf(o)
      onDev == {x \in cyc \cup ready : DevOf(x) = d}
  IN /\ last' = [by |-> o, kind |-> call, wasOpen |-> d \in open,
                 others |-> {x \in cyc : DevOf(x) = d} \ {o},
                 ready |-> o \in ready, poisoned |-> o \in poisoned, arg |-> arg]
     /\ devState' = CASE call = "connect" -> [devState EXCEPT ![d] = ConnectState(res)]
                      [] call = "disconnect" -> [devState EXCEPT ![d] = "Disconnected"]
                      [] OTHER -> devState
     /\ open' = CASE call = "connect" -> open \cup {d}
                  [] call = "disconnect" -> open \ {d}
                  [] OTHER -> open
     /\ cyc' = CASE call = "connect" -> cyc \cup {o}
                 [] call = "disconnect" -> cyc \ {o}
                 [] OTHER -> cyc
     /\ ready' = CASE call = "connect" -> IF res = "ok" THEN ready \cup {o} ELSE ready \ {o}
                   [] call = "disconnect" -> ready \ onDev
                   [] OTHER -> ready
     /\ poisoned' = CASE call = "disconnect" -> poisoned \ {o}
                      [] res = "timeout" -> poisoned \cup {o}
                      [] OTHER -> poisoned

Device(o, call, res) == DeviceCall(o, call, NoArg, res)

Go(t, label) == pc' = [pc EXCEPT ![t] = label]

\* Operation o returns or raises; fin holds it for the one state that follows.
Finish(o, name, outcome, primary, disc, raised) ==
  fin' = [op |-> o, name |-> name, outcome |-> outcome, primary |-> primary,
          connected |-> o \in cyc, disc |-> disc, discRaised |-> raised,
          err |-> err[o[1]], state |-> state[o[1]], result |-> result[o[1]],
          refs |-> refIdx[o[1]]]

Quiet == fin' = NoFin

\* The tasks that are inside an operation.  The model follows the operations
\* of a loaded entry two at a time: one starts while at most one other runs.
Busy == {t \in Tasks : pc[t] \notin {"idle", "done"}}
Room == Cardinality(Busy) <= 1
--------------------------------------------------------------------------
\* select.py: the option tables of the select entities and what is looked
\* up in them

VARIABLES
  selCommand,   \* command_code of the entity description: PMPM or PMCT
  selOption,    \* the option handed to the lookup
  selCode,      \* what <table>.get(option) gave, Unset before the lookup
  selDecoded,   \* the decoded value of the reference response selCode
  selRead       \* a reference response of the projector and its decoded value

selVars == <<selCommand, selOption, selCode, selDecoded, selRead>>

NoRead == [resp |-> None, read |-> Unread]

SelIdle ==
  /\ selCommand = <<>>
  /\ selOption = <<>>
  /\ selCode = Unset
  /\ selDecoded = Unread
  /\ selRead = NoRead

--------------------------------------------------------------------------
\* number.py: the LD power number entity

VARIABLES
  numPc,        \* "idle", "op" (awaiting device.op), "done"
  numValue,     \* the value async_set_native_value was called with
  numSent,      \* the arguments of device.op: command code and hex_value
  numBefore,    \* coordinator.data[key] when the call began
  numStored,    \* coordinator.data[key]: a protocol value or Absent
  numRefresh,   \* async_request_refresh was called by the current call
  numRaised,    \* what the finished call raised, "none" if it returned
  numOp,        \* how the call's device.op ended
  numNative     \* the last native_value that was read, Unset if none

numVars == <<numPc, numValue, numSent, numBefore, numStored, numRefresh, numRaised, numOp, numNative>>

NumIdle ==
  /\ numPc = "idle"
  /\ numValue = 0
  /\ numSent = Unset
  /\ numBefore = Absent
  /\ numStored = Absent
  /\ numRefresh = FALSE
  /\ numRaised = "none"
  /\ numOp = "none"
  /\ numNative = Unset

--------------------------------------------------------------------------
\* config_flow.py: the steps of JvcProjectorConfigFlow

VARIABLES
  fPc,        \* "idle", "mac" (awaiting get_mac_address), "done"
  fStep,      \* the step that runs or ran last: "user" or "reauth_confirm"
  fInput,     \* user_input of the step that runs or ran last
  fResult,    \* what that step returned, or what it raised
  fCreated,   \* the data of the config entry async_create_entry made, if any
  fBefore,    \* _reauth_entry.data when the step began
  fStored,    \* _reauth_entry.data: the stored entry
  fReloads,   \* calls of config_entries.async_reload by the step
  fTried,     \* get_mac_address calls of the step that runs or ran last
  fConn,      \* how device.connect ended inside get_mac_address
  fMac        \* how get_mac_address ended: "ok" or what it raised

flowVars == <<fPc, fStep, fInput, fResult, fCreated, fBefore, fStored, fReloads, fTried, fConn, fMac>>

NoData == [host |-> "-", port |-> 0, password |-> "-"]
NoInput == [given |-> FALSE, host |-> "-", port |-> 0, password |-> "-"]
NoStepResult == [type |-> "-", step_id |-> "-", errors |-> "-", raised |-> "none"]
StoredEntry == [host |-> "192.168.0.9", port |-> 20554, password |-> "old"]

FlowIdle ==
  /\ fPc = "idle"
  /\ fStep = "-"
  /\ fInput = NoInput
  /\ fResult = NoStepResult
  /\ fCreated = NoData
  /\ fBefore = StoredEntry
  /\ fStored = StoredEntry
  /\ fReloads = 0
  /\ fTried = 0
  /\ fConn = "-"
  /\ fMac = "-"

--------------------------------------------------------------------------
\* coordinator.py: one poll with what it stores, and sensor.py that reads it

VARIABLES
  constHasKeys, \* whether the const that the coordinator imports from
                \* jvcprojector.projector has the attributes CONTENT_TYPE,
                \* CONTENT_TYPE_DIAGNOSTIC, SOURCE_CONTENT_TYPE, PICTURE_MODE
  xPc,          \* "idle", "connect", "state", "ref", "log", "done"
  xIdx,         \* the extended query that is next, 0 outside "ref"
  xAnswers,     \* how the extended queries of this poll ended, in order
  xResult,      \* the poll's result dict
  xOut,         \* "none", "returned", or what the poll raised
  xData         \* coordinator.data

pollXVars == <<constHasKeys, xPc, xIdx, xAnswers, xResult, xOut, xData>>

ResultKeys == {"power", "input", "source", "IFLT", "IFIS", "IFIN", "CONTENT_TYPE",
               "CONTENT_TYPE_DIAGNOSTIC", "SOURCE_CONTENT_TYPE", "PICTURE_MODE"}
EmptyDict == [k \in ResultKeys |-> Absent]

PollXIdle ==
  /\ constHasKeys = TRUE
  /\ xPc = "idle"
  /\ xIdx = 0
  /\ xAnswers = <<>>
  /\ xResult = EmptyDict
  /\ xOut = "none"
  /\ xData = EmptyDict

auxVars == <<selVars, numVars, flowVars, pollXVars>>
AuxIdle == SelIdle /\ NumIdle /\ FlowIdle /\ PollXIdle


--------------------------------------------------------------------------
\* The handshake that connect runs on a fresh TCP stream.

MaxConnects == 4   \* connect calls of one Connection

\* command.py: the handshake tokens
PJOK == "PJ_OK"
PJNG == "PJ_NG"
PJREQ == "PJREQ"
PJACK == "PJACK"
PJNAK == "PJNAK"

\* What a read of the handshake can give: a token, other bytes, or nothing
\* within the deadline.
OtherBytes == "HELLO"
ReadTimeout == "timeout"
Reads == {PJOK, PJNG, PJREQ, PJACK, PJNAK, OtherBytes, ReadTimeout}
Passwords == {None, <<"s", "e", "c", "r", "e", "t">>}

VARIABLES
  hs,        \* Connection.state
  hsError,   \* the error connect fails with
  received,  \* what the handshake has read in this connect
  sent,      \* the frames the handshake has sent in this connect
  password,  \* Connection.password
  connects   \* connect calls made

hsVars == <<hs, hsError, received, sent, password, connects>>

Terminal == {"Ready", "Failed"}

\* A Connection that has not connected yet.
HsIdle(pw) ==
  /\ hs = "Disconnected"
  /\ hsError = "none"
  /\ received = <<>>
  /\ sent = <<>>
  /\ password = pw
  /\ connects = 0

\* connect is called: a fresh Disconnected -> Connecting cycle.
HsConnect ==
  /\ hs = "Disconnected"
  /\ connects < MaxConnects
  /\ connects' = connects + 1
  /\ hs' = "Connecting"
  /\ hsError' = "none"
  /\ received' = <<>>
  /\ sent' = <<>>
  /\ UNCHANGED password
  /\ UNCHANGED <<sysVars, cmdVars, auxVars>>

\* The TCP connection opens, or is refused or times out.
HsOpened(ok) ==
  /\ hs = "Connecting"
  /\ hs' = IF ok THEN "AwaitingGreeting" ELSE "Failed"
  /\ hsError' = IF ok THEN "none" ELSE "JvcProjectorConnectError"
  /\ UNCHANGED <<received, sent, password, connects>>
  /\ UNCHANGED <<sysVars, cmdVars, auxVars>>

\* The request frame: the PJREQ token, with the authentication block when a
\* password is configured.
Request == [token |-> PJREQ, auth |-> password # None]

\* Step 1 and 2: the greeting is read; PJ_OK is answered with the request.
HsGreeting(g) ==
  /\ hs = "AwaitingGreeting"
  /\ received' = Append(received, g)
  /\ IF g = PJOK
     THEN /\ sent' = Append(sent, Request)
          /\ hs' = "Authenticating"
          /\ UNCHANGED hsError
     ELSE /\ hs' = "Failed"
          /\ hsError' = "JvcProjectorConnectError"
          /\ UNCHANGED sent
  /\ UNCHANGED <<password, connects>>
  /\ UNCHANGED <<sysVars, cmdVars, auxVars>>

\* A handshake that takes every acknowledgment but PJNAK for an accept.
AckOutcomeLenient(a) ==
  CASE a = PJNAK -> [state |-> "Failed", error |-> "JvcProjectorAuthError"]
    [] OTHER -> [state |-> "Ready", error |-> "none"]

\* Step 3: what the acknowledgment leads to.
AckOutcome(a) ==
  CASE a = PJACK -> [state |-> "Ready", error |-> "none"]
    [] a = PJNAK -> [state |-> "Failed", error |-> "JvcProjectorAuthError"]
    [] OTHER -> [state |-> "Failed", error |-> "JvcProjectorConnectError"]

HsAck(a) ==
  /\ hs = "Authenticating"
  /\ received' = Append(received, a)
  /\ hs' = AckOutcome(a).state
  /\ hsError' = AckOutcome(a).error
  /\ UNCHANGED <<sent, password, connects>>
  /\ UNCHANGED <<sysVars, cmdVars, auxVars>>

\* disconnect: from any state, the connection is closed.
HsDisconnect ==
  /\ hs # "Disconnected"
  /\ hs' = "Disconnected"
  /\ UNCHANGED <<hsError, received, sent, password, connects>>
  /\ UNCHANGED <<sysVars, cmdVars, auxVars>>
--------------------------------------------------------------------------
\* The command model's operations.

\* JvcCommand.__init__
CmdInit ==
  /\ code \in Codes
  /\ is_ref \in BOOLEAN
  /\ _response = None
  /\ read = Unread
  /\ applied = 0
  /\ readNoneBefore = FALSE
  /\ stored = NotReached

\* JvcCommand.response (the setter)
SetResponse(data) ==
  /\ _response' = data
  /\ read' = Unread
  /\ applied' = 0
  /\ readNoneBefore' = (readNoneBefore \/ read = Returns(None))
  /\ stored' = NotReached
  /\ UNCHANGED <<code, is_ref>>
  /\ UNCHANGED <<sysVars, hsVars, auxVars>>

\* A read that gives again the None an earlier read gave (a cached value the
\* setter does not clear).
ReadResponseCached ==
  /\ read' = IF readNoneBefore THEN Returns(None) ELSE response(code, is_ref, _response)
  /\ applied' = IF is_ref /\ _response # None THEN MatchedRule(code \o _response) ELSE 0
  /\ UNCHANGED <<code, is_ref, _response, readNoneBefore, stored>>
  /\ UNCHANGED <<sysVars, hsVars, auxVars>>

\* A caller reads JvcCommand.response.
ReadResponse ==
  /\ read' = response(code, is_ref, _response)
  /\ applied' = IF is_ref /\ _response # None THEN MatchedRule(code \o _response) ELSE 0
  /\ UNCHANGED <<code, is_ref, _response, readNoneBefore, stored>>
  /\ UNCHANGED <<sysVars, hsVars, auxVars>>


\* coordinator.py: "if raw_light_time and raw_light_time.isdigit():
\* result[const.IFLT] = int(raw_light_time)"
StoredLightTime(raw) ==
  IF raw # None /\ raw # <<>> /\ PyIsDigit(raw) THEN <<"int", PyInt(raw)>> ELSE Unset

\* What device.ref(code) returns to its caller: the decoded value of the
\* command it sent.
RefResult == read.val

\* The poll takes the value device.ref(command.IFLT) returned and stores the
\* light-source time.
StoreLightTime ==
  /\ code = IFLT
  /\ read # Unread
  /\ read.exc = "none"
  /\ stored' = StoredLightTime(RefResult)
  /\ UNCHANGED <<code, is_ref, _response, read, applied, readNoneBefore>>
  /\ UNCHANGED <<sysVars, hsVars, auxVars>>
--------------------------------------------------------------------------
\* __init__.py: async_setup_entry

SetupOp == <<"setup", "setup">>

\* The except clauses of the initial connection.
SetupRaise(res) ==
  CASE res = "auth_error" -> "ConfigEntryAuthFailed"
    [] OTHER -> "ConfigEntryNotReady"

\* await asyncio.wait_for(device.connect(True), timeout=30)
SetupConnect ==
  /\ pc["setup"] = "s_connect"
  /\ pc["flow"] = "idle"
  /\ \E res \in Outcomes({"ok", "timeout", "connect_error", "auth_error", "error"}) :
       /\ Device(SetupOp, "connect", res)
       /\ Counted(res)
       /\ err' = [err EXCEPT !["setup"] = IF res = "ok" THEN "none" ELSE res]
       /\ CASE res = "ok" ->
                 \* the coordinator is created and the first refresh starts
                 /\ Go("setup", "p_connect")
                 /\ UNCHANGED <<pend>> /\ Quiet
            [] res = "cancelled" ->
                 /\ Go("setup", "done")
                 /\ Finish(SetupOp, "async_setup_entry", "CancelledError", "CancelledError", FALSE, FALSE)
                 /\ UNCHANGED pend
            [] OTHER ->
                 /\ Go("setup", "s_cleanup")
                 /\ pend' = [pend EXCEPT !["setup"] = SetupRaise(res)]
                 /\ Quiet
  /\ UNCHANGED <<remoteVars, loaded, refIdx, pollPend, started>>
  /\ UNCHANGED <<state, result, cmdVars, hsVars, auxVars>>

\* What the caller of async_setup_entry sees after the handler's
\* "await device.disconnect()", which no try guards.
SetupCleanupOutcome(res, primary) ==
  CASE res = "ok" -> primary
    [] res = "raise" -> "DisconnectError"
    [] res = "cancelled" -> "CancelledError"

SetupCleanup ==
  /\ pc["setup"] = "s_cleanup"
  /\ \E res \in Outcomes({"ok", "raise"}) :
       /\ Device(SetupOp, "disconnect", res)
       /\ Counted(res)
       /\ Finish(SetupOp, "async_setup_entry", SetupCleanupOutcome(res, pend["setup"]),
                 pend["setup"], TRUE, res = "raise")
  /\ pend' = [pend EXCEPT !["setup"] = "none"]
  /\ err' = [err EXCEPT !["setup"] = "none"]
  /\ Go("setup", "done")
  /\ UNCHANGED <<remoteVars, loaded, refIdx, pollPend, started>>
  /\ UNCHANGED <<state, result, cmdVars, hsVars, auxVars>>

\* async_config_entry_first_refresh returned or raised: the platforms are set
\* up, or the coordinator is shut down and the error is raised again.
FirstRefreshRaise(polled) ==
  CASE polled = "UpdateFailed" -> "ConfigEntryNotReady"
    [] OTHER -> polled

SetupRefreshed ==
  /\ pc["setup"] = "s_refreshed"
  /\ LET out == FirstRefreshRaise(pollPend["setup"])
     IN /\ loaded' = (out = "ok")
        /\ Finish(SetupOp, "async_setup_entry", out, out, FALSE, FALSE)
  /\ pollPend' = [pollPend EXCEPT !["setup"] = "none"]
  /\ err' = [err EXCEPT !["setup"] = "none"]
  /\ Go("setup", "done")
  /\ UNCHANGED <<remoteVars, devVars, refIdx, pend, started, cancels>>
  /\ UNCHANGED <<state, result, cmdVars, hsVars, auxVars>>

--------------------------------------------------------------------------
\* coordinator.py: _async_update_data, run by task t

PollTasks == {"setup", "timer"} \cup RemoteTasks
PollLabels == {"p_connect", "p_state", "p_ref", "p_finally"}
PollOp(t) == <<t, "poll">>

\* The except clauses of _async_update_data.
PollRaise(res) ==
  CASE res = "timeout" -> "UpdateFailed"
    [] res = "auth_error" -> "ConfigEntryAuthFailed"
    [] res = "connect_error" -> "UpdateFailed"
    [] res = "cancelled" -> "CancelledError"
    [] OTHER -> "UpdateFailed"

\* The scheduled refresh fires, or the debouncer runs a refresh that
\* async_request_refresh asked for; the schedule is off while a refresh runs.
TimerStart ==
  /\ loaded
  /\ pc["timer"] = "idle"
  /\ started < MaxOps
  /\ \A u \in Tasks : pc[u] \notin PollLabels
  /\ Room
  /\ started' = started + 1
  /\ Go("timer", "p_connect")
  /\ UNCHANGED <<remoteVars, devVars, loaded, refIdx, pollPend, pend, cancels>> /\ Quiet
  /\ UNCHANGED <<pollVars, cmdVars, hsVars, auxVars>>

\* await asyncio.wait_for(self.device.connect(get_info=False), timeout=POLL_TIMEOUT)
PollConnect(t) ==
  /\ pc[t] = "p_connect"
  /\ \E res \in Outcomes({"ok", "timeout", "connect_error", "auth_error", "error"}) :
       /\ Device(PollOp(t), "connect", res)
       /\ Counted(res)
       /\ err' = [err EXCEPT ![t] = IF res = "ok" THEN "none" ELSE res]
       /\ IF res = "ok"
          THEN Go(t, "p_state") /\ UNCHANGED pollPend
          ELSE Go(t, "p_finally") /\ pollPend' = [pollPend EXCEPT ![t] = PollRaise(res)]
  /\ UNCHANGED <<remoteVars, loaded, refIdx, pend, started>> /\ Quiet
  /\ UNCHANGED <<state, result, cmdVars, hsVars, auxVars>>

\* A poll that sends the extended queries whatever the power is.
PowerIgnored(power) == TRUE

\* if power == const.ON:
PowerIsOn(power) == power = ON

\* result = {k: v for k, v in state.items() if v is not None}, and in the
\* else branch result[const.IFLT] = "power_off".  What the extended queries
\* store in result is not followed here.
BaseResult(value) ==
  LET power == IF value = None THEN Absent ELSE value
  IN [power |-> power, iflt |-> IF PowerIsOn(power) THEN Absent ELSE <<"power_off">>]

\* state = await asyncio.wait_for(self.device.get_state(), ...); with the power
\* on the extended queries follow, else the result is returned.  value is
\* the decoded power that get_state returns.
PollState(t) ==
  /\ pc[t] = "p_state"
  /\ \E res \in Outcomes(CommandResults("entry", {"ok", "timeout", "connect_error", "auth_error", "error"})),
        value \in PowerValues :
       /\ Device(PollOp(t), "get_state", res)
       /\ Counted(res)
       /\ IF res = "ok"
          THEN /\ state' = [state EXCEPT ![t] = value]
               /\ result' = [result EXCEPT ![t] = BaseResult(value)]
               /\ UNCHANGED err
               /\ IF PowerIsOn(BaseResult(value).power)
                  THEN /\ Go(t, "p_ref")
                       /\ refIdx' = [refIdx EXCEPT ![t] = 1]
                       /\ UNCHANGED pollPend
                  ELSE /\ Go(t, "p_finally")
                       /\ pollPend' = [pollPend EXCEPT ![t] = "ok"]
                       /\ UNCHANGED refIdx
          ELSE /\ err' = [err EXCEPT ![t] = res]
               /\ Go(t, "p_finally")
               /\ pollPend' = [pollPend EXCEPT ![t] = PollRaise(res)]
               /\ UNCHANGED <<refIdx, state, result>>
  /\ UNCHANGED <<remoteVars, loaded, pend, started>> /\ Quiet
  /\ UNCHANGED <<cmdVars, hsVars, auxVars>>

\* How one extended query ends: a timeout or an error of the query is caught
\* by the query's own try, a cancellation is not.
RefCaught(res) == res # "cancelled"

\* One "try: raw = await asyncio.wait_for(self.device.ref(code), ...)" block
\* and the statements up to the next one.
PollRef(t) ==
  /\ pc[t] = "p_ref"
  /\ \E res \in Outcomes(CommandResults("entry", {"ok", "timeout", "error"})) :
       /\ Device(PollOp(t), "ref", res)
       /\ Counted(res)
       /\ err' = [err EXCEPT ![t] = IF RefCaught(res) THEN "none" ELSE res]
       /\ IF ~RefCaught(res)
          THEN /\ Go(t, "p_finally")
               /\ pollPend' = [pollPend EXCEPT ![t] = PollRaise(res)]
               /\ UNCHANGED refIdx
          ELSE IF refIdx[t] = Len(ExtendedRefs)
          THEN /\ Go(t, "p_finally")
               /\ pollPend' = [pollPend EXCEPT ![t] = "ok"]
               /\ UNCHANGED refIdx
          ELSE /\ refIdx' = [refIdx EXCEPT ![t] = refIdx[t] + 1]
               /\ UNCHANGED <<pc, pollPend>>
  /\ UNCHANGED <<remoteVars, loaded, pend, started>> /\ Quiet
  /\ UNCHANGED <<state, result, cmdVars, hsVars, auxVars>>

\* What the poll returns or raises after "finally: try: await
\* self.device.disconnect() except Exception: pass".
AfterCleanup(res, primary) == IF res = "cancelled" THEN "CancelledError" ELSE primary

\* Where the task goes on after the poll: the timer's task is done, setup
\* handles the first refresh, async_refresh inside async_turn_on/off swallows
\* a failed update and the remote operation reaches its own finally.
PollFinally(t) ==
  /\ pc[t] = "p_finally"
  /\ \E res \in Outcomes({"ok", "raise"}) :
       LET out == AfterCleanup(res, pollPend[t])
       IN /\ Device(PollOp(t), "disconnect", res)
          /\ Counted(res)
          /\ Finish(PollOp(t), "_async_update_data", out, pollPend[t], TRUE, res = "raise")
          /\ pollPend' = [pollPend EXCEPT ![t] = IF t = "setup" THEN out ELSE "none"]
          /\ pend' = IF t \in RemoteTasks
                     THEN [pend EXCEPT ![t] = IF out = "CancelledError" THEN out ELSE "ok"]
                     ELSE pend
  /\ Go(t, CASE t = "timer" -> "idle"
             [] t = "setup" -> "s_refreshed"
             [] OTHER -> "r_finally")
  /\ refIdx' = [refIdx EXCEPT ![t] = 0]
  /\ err' = [err EXCEPT ![t] = IF t = "setup" THEN err[t] ELSE "none"]
  /\ state' = [state EXCEPT ![t] = NoState]
  /\ result' = [result EXCEPT ![t] = NoResult]
  /\ UNCHANGED <<remoteVars, loaded, started>>
  /\ UNCHANGED <<cmdVars, hsVars, auxVars>>

--------------------------------------------------------------------------
\* remote.py: async_turn_on, async_turn_off, async_send_command, run by task r

RemoteOp(r) == <<r, "remote">>
RemoteKinds == {"async_turn_on", "async_turn_off", "async_send_command"}

\* What a failed call of a remote operation raises: the except clause logs
\* JvcProjectorConnectError and raises it again, anything else passes through.
RemoteRaise(res) ==
  CASE res = "connect_error" -> "JvcProjectorConnectError"
    [] res = "auth_error" -> "JvcProjectorAuthError"
    [] res = "cancelled" -> "CancelledError"
    [] OTHER -> "JvcProjectorError"

\* A service call reaches the remote entity.
RemoteStart(r, k) ==
  /\ loaded
  /\ pc[r] = "idle"
  /\ r = "r2" => pc["r1"] # "idle"   \* the tasks are interchangeable: r1 is the first
  /\ Room
  /\ started < MaxOps
  /\ started' = started + 1
  /\ kind' = [kind EXCEPT ![r] = k]
  /\ pend' = [pend EXCEPT ![r] = "none"]
  /\ Go(r, "r_lock")
  /\ UNCHANGED <<cmds, keyVars, lockOwner, lastCommandTime, currentActivity, devVars, loaded, refIdx,
                 pollPend, cancels>> /\ Quiet
  /\ UNCHANGED <<pollVars, cmdVars, hsVars, auxVars>>

\* A lock that never makes a caller wait.
LockIgnored == TRUE

\* asyncio.Lock: locked() is false
LockFree == lockOwner = "none"

\* async with self._command_lock: (entered).  The command argument of
\* async_send_command is first read under the lock: c is drawn here.
RemoteAcquire(r, c) ==
  /\ pc[r] = "r_lock"
  /\ LockFree
  /\ lockOwner' = r
  /\ cmds' = [cmds EXCEPT ![r] = c]
  /\ command' = [command EXCEPT ![r] = c]
  /\ keysSent' = [keysSent EXCEPT ![r] = <<>>]
  /\ Go(r, IF kind[r] = "async_send_command" THEN "r_connect" ELSE "r_guard")
  /\ UNCHANGED <<kind, lastCommandTime, currentActivity, devVars, loaded, refIdx,
                 pollPend, pend, started, cancels>> /\ Quiet
  /\ UNCHANGED <<pollVars, cmdVars, hsVars, auxVars>>

\* The task is cancelled while it waits for the lock.
RemoteCancelWait(r) ==
  /\ pc[r] = "r_lock"
  /\ ~LockFree
  /\ cancels < MaxCancels
  /\ cancels' = cancels + 1
  /\ Finish(RemoteOp(r), kind[r], "CancelledError", "CancelledError", FALSE, FALSE)
  /\ kind' = [kind EXCEPT ![r] = "none"]
  /\ cmds' = [cmds EXCEPT ![r] = <<>>]
  /\ command' = [command EXCEPT ![r] = <<>>]
  /\ keysSent' = [keysSent EXCEPT ![r] = <<>>]
  /\ Go(r, "idle")
  /\ UNCHANGED <<lockOwner, lastCommandTime, currentActivity, devVars, loaded, refIdx,
                 pollPend, pend, started>>
  /\ UNCHANGED <<pollVars, cmdVars, hsVars, auxVars>>

\* await self._guard_if_needed(POWER_COMMAND_GUARD), before the try of
\* async_turn_on/off: it sleeps when the previous command was recent, and a
\* cancellation during the sleep leaves the operation through the lock's exit.
RemoteGuard(r) ==
  /\ pc[r] = "r_guard"
  /\ \E res \in {"pass"} \cup (IF lastCommandTime = "set" THEN Outcomes({"slept"}) ELSE {}) :
       /\ Counted(res)
       /\ IF res = "cancelled"
          THEN /\ lockOwner' = "none"
               /\ Finish(RemoteOp(r), kind[r], "CancelledError", "CancelledError", FALSE, FALSE)
               /\ kind' = [kind EXCEPT ![r] = "none"]
               /\ Go(r, "idle")
               /\ UNCHANGED lastCommandTime
          ELSE /\ lastCommandTime' = "set"
               /\ Go(r, "r_connect")
               /\ UNCHANGED <<kind, lockOwner>> /\ Quiet
  /\ UNCHANGED <<cmds, keyVars, currentActivity, devVars, loaded, refIdx, pollPend, pend, started>>
  /\ UNCHANGED <<pollVars, cmdVars, hsVars, auxVars>>

\* await self.device.connect(get_info=False)
RemoteConnect(r) ==
  /\ pc[r] = "r_connect"
  /\ \E res \in Outcomes({"ok", "connect_error", "auth_error", "error"}) :
       /\ Device(RemoteOp(r), "connect", res)
       /\ Counted(res)
       /\ IF res = "ok"
          THEN /\ Go(r, IF kind[r] = "async_send_command" THEN "r_key" ELSE "r_power")
               /\ UNCHANGED <<pend, cmds>>
          ELSE /\ Go(r, "r_finally")
               /\ pend' = [pend EXCEPT ![r] = RemoteRaise(res)]
               /\ cmds' = [cmds EXCEPT ![r] = <<>>]
  /\ UNCHANGED <<kind, keyVars, lockOwner, lastCommandTime, currentActivity, loaded, refIdx,
                 pollPend, started>> /\ Quiet
  /\ UNCHANGED <<pollVars, cmdVars, hsVars, auxVars>>

\* await self.device.power_on() / power_off(), the sleep, and then
\* await self.coordinator.async_refresh(): the poll runs in this task.
RemotePower(r) ==
  /\ pc[r] = "r_power"
  /\ \E res \in Outcomes(CommandResults("entry", {"ok", "connect_error", "error"})) :
       /\ Device(RemoteOp(r), IF kind[r] = "async_turn_on" THEN "power_on" ELSE "power_off", res)
       /\ Counted(res)
       /\ IF res = "ok"
          THEN Go(r, "p_connect") /\ UNCHANGED pend
          ELSE Go(r, "r_finally") /\ pend' = [pend EXCEPT ![r] = RemoteRaise(res)]
  /\ UNCHANGED <<remoteVars, loaded, refIdx, pollPend, started>> /\ Quiet
  /\ UNCHANGED <<pollVars, cmdVars, hsVars, auxVars>>

\* A loop that takes the commands from the end of the list.
ForNextFromEnd(list) == list[Len(list)]

\* for cmd in command: the command of the next round
ForNext(list) == Head(list)

\* One round of "for cmd in command": the key is resolved, the guard is
\* applied, and the key is sent with device.remote.
RemoteKey(r) ==
  /\ pc[r] = "r_key"
  /\ cmds[r] # <<>>
  /\ LET cmd == ForNext(cmds[r])
         key == ResolveCommand(cmd)
     IN IF ~key.ok
        THEN \* raise ValueError
             /\ pend' = [pend EXCEPT ![r] = "ValueError"]
             /\ cmds' = [cmds EXCEPT ![r] = <<>>]
             /\ Go(r, "r_finally")
             /\ UNCHANGED <<kind, keyVars, lockOwner, lastCommandTime, currentActivity,
                            devVars, cancels>>
        ELSE \E res \in Outcomes(CommandResults("entry", {"ok", "connect_error", "error"})) :
             /\ DeviceCall(RemoteOp(r), "remote", [cmd |-> cmd, key_code |-> key.key_code], res)
             /\ Counted(res)
             /\ keysSent' = [keysSent EXCEPT ![r] = Append(keysSent[r], [cmd |-> cmd, key_code |-> key.key_code])]
             /\ lastCommandTime' = "set"
             /\ IF res = "ok"
                THEN /\ currentActivity' = IF Has(REMOTE_BUTTON_MAP, Lower(cmd))
                                           THEN Lower(cmd) ELSE currentActivity
                     /\ cmds' = [cmds EXCEPT ![r] = Tail(cmds[r])]
                     /\ UNCHANGED <<pc, pend>>
                ELSE /\ pend' = [pend EXCEPT ![r] = RemoteRaise(res)]
                     /\ cmds' = [cmds EXCEPT ![r] = <<>>]
                     /\ Go(r, "r_finally")
                     /\ UNCHANGED currentActivity
             /\ UNCHANGED <<kind, command, lockOwner>>
  /\ UNCHANGED <<loaded, refIdx, pollPend, started>> /\ Quiet
  /\ UNCHANGED <<pollVars, cmdVars, hsVars, auxVars>>

\* The for loop is exhausted.
RemoteKeysDone(r) ==
  /\ pc[r] = "r_key"
  /\ cmds[r] = <<>>
  /\ pend' = [pend EXCEPT ![r] = "ok"]
  /\ Go(r, "r_finally")
  /\ UNCHANGED <<remoteVars, devVars, loaded, refIdx, pollPend, started, cancels>> /\ Quiet
  /\ UNCHANGED <<pollVars, cmdVars, hsVars, auxVars>>

\* A remote operation that ends without the finally clause's disconnect.
RemoteFinallyWithoutDisconnect(r) ==
  /\ pc[r] = "r_finally"
  /\ Finish(RemoteOp(r), kind[r], pend[r], pend[r], FALSE, FALSE)
  /\ lockOwner' = "none"
  /\ kind' = [kind EXCEPT ![r] = "none"]
  /\ cmds' = [cmds EXCEPT ![r] = <<>>]
  /\ command' = [command EXCEPT ![r] = <<>>]
  /\ keysSent' = [keysSent EXCEPT ![r] = <<>>]
  /\ pend' = [pend EXCEPT ![r] = "none"]
  /\ Go(r, "idle")
  /\ UNCHANGED <<lastCommandTime, currentActivity, devVars, loaded, refIdx, pollPend,
                 started, cancels>>
  /\ UNCHANGED <<pollVars, cmdVars, hsVars, auxVars>>

\* finally: try: await self.device.disconnect() except Exception: pass;
\* then the lock is released and the operation returns or raises.
RemoteFinally(r) ==
  /\ pc[r] = "r_finally"
  /\ \E res \in Outcomes({"ok", "raise"}) :
       /\ Device(RemoteOp(r), "disconnect", res)
       /\ Counted(res)
       /\ Finish(RemoteOp(r), kind[r], AfterCleanup(res, pend[r]), pend[r], TRUE, res = "raise")
  /\ lockOwner' = "none"
  /\ kind' = [kind EXCEPT ![r] = "none"]
  /\ cmds' = [cmds EXCEPT ![r] = <<>>]
  /\ command' = [command EXCEPT ![r] = <<>>]
  /\ keysSent' = [keysSent EXCEPT ![r] = <<>>]
  /\ pend' = [pend EXCEPT ![r] = "none"]
  /\ Go(r, "idle")
  /\ UNCHANGED <<lastCommandTime, currentActivity, loaded, refIdx, pollPend, started>>
  /\ UNCHANGED <<pollVars, cmdVars, hsVars, auxVars>>

--------------------------------------------------------------------------
\* select.py: async_select_option, run by task sel.  The option's code is
\* sent with device.op: the operation has no connect and no disconnect call
\* of its own.

SelectOp == <<"sel", "select">>

\* "if option not in self.entity_description.options: return", else the
\* command code is looked up and the try is entered.
SelectStart(valid) ==
  /\ loaded
  /\ pc["sel"] = "idle"
  /\ started < MaxOps
  /\ Room
  /\ started' = started + 1
  /\ IF valid
     THEN Go("sel", "sel_op") /\ Quiet
     ELSE Finish(SelectOp, "async_select_option", "ok", "ok", FALSE, FALSE) /\ UNCHANGED pc
  /\ UNCHANGED <<remoteVars, devVars, loaded, refIdx, pollPend, pend, cancels>>
  /\ UNCHANGED <<pollVars, cmdVars, hsVars, auxVars>>

\* await asyncio.wait_for(self.coordinator.device.op(full_command), timeout=5.0):
\* a timeout is logged and passed over, any other exception is logged by the
\* outer "except Exception"; either way the operation returns normally.
\* After a sleep async_request_refresh hands a refresh to the coordinator's
\* debouncer: that poll is TimerStart's.
SelectSend ==
  /\ pc["sel"] = "sel_op"
  /\ \E res \in Outcomes(CommandResults("entry", {"ok", "timeout", "error"})) :
       /\ Device(SelectOp, "op", res)
       /\ Counted(res)
       /\ IF res = "cancelled"
          THEN Finish(SelectOp, "async_select_option", "CancelledError", "CancelledError",
                      FALSE, FALSE)
          ELSE Finish(SelectOp, "async_select_option", "ok", "ok", FALSE, FALSE)
  /\ Go("sel", "idle")
  /\ UNCHANGED <<remoteVars, loaded, refIdx, pollPend, pend, started>>
  /\ UNCHANGED <<pollVars, cmdVars, hsVars, auxVars>>

--------------------------------------------------------------------------
\* config_flow.py: get_mac_address, on a JvcProjector object of its own

FlowOp == <<"flow", "flow">>

\* What get_mac_address raises (both except clauses raise again), or "ok"
\* when it returns the MAC address.
FlowRaise(res) ==
  CASE res = "ok" -> "ok"
    [] res = "no_mac" -> "JvcProjectorConnectError"
    [] res = "timeout" -> "TimeoutError"
    [] res = "connect_error" -> "JvcProjectorConnectError"
    [] res = "auth_error" -> "JvcProjectorAuthError"
    [] res = "cancelled" -> "CancelledError"
    [] OTHER -> "JvcProjectorError"

FlowStart ==
  /\ pc["flow"] = "idle"
  /\ pc["setup"] = "s_connect"   \* the flow creates the entry that is then set up
  /\ Go("flow", "f_connect")
  /\ UNCHANGED <<remoteVars, devVars, loaded, refIdx, pollPend, pend, started, cancels>> /\ Quiet
  /\ UNCHANGED <<pollVars, cmdVars, hsVars, auxVars>>

\* await asyncio.wait_for(device.connect(True), timeout=CONNECTION_TIMEOUT),
\* then "if not device.mac: raise JvcProjectorConnectError"
FlowConnect ==
  /\ pc["flow"] = "f_connect"
  /\ \E res \in {"ok", "no_mac", "timeout", "connect_error", "auth_error", "error", "cancelled"} :
       /\ Device(FlowOp, "connect", IF res = "no_mac" THEN "ok" ELSE res)
       /\ pend' = [pend EXCEPT !["flow"] = FlowRaise(res)]
  /\ Go("flow", "f_finally")
  /\ UNCHANGED <<remoteVars, loaded, refIdx, pollPend, started, cancels>> /\ Quiet
  /\ UNCHANGED <<pollVars, cmdVars, hsVars, auxVars>>

FlowFinally ==
  /\ pc["flow"] = "f_finally"
  /\ \E res \in {"ok", "raise", "cancelled"} :
       /\ Device(FlowOp, "disconnect", res)
       /\ Finish(FlowOp, "get_mac_address", AfterCleanup(res, pend["flow"]), pend["flow"],
                 TRUE, res = "raise")
  /\ pend' = [pend EXCEPT !["flow"] = "none"]
  /\ Go("flow", "idle")
  /\ UNCHANGED <<remoteVars, loaded, refIdx, pollPend, started, cancels>>
  /\ UNCHANGED <<pollVars, cmdVars, hsVars, auxVars>>

--------------------------------------------------------------------------
\* The specifications.

\* The command is out of the picture while the callers run, and the reverse.
CmdIdle ==
  /\ code = <<"X", "X">>
  /\ is_ref = FALSE
  /\ _response = None
  /\ read = Unread
  /\ applied = 0
  /\ readNoneBefore = FALSE
  /\ stored = NotReached

Init == SysInit /\ CmdIdle /\ HsIdle(None) /\ AuxIdle

Next ==
  \/ SetupConnect
  \/ SetupCleanup
  \/ SetupRefreshed
  \/ TimerStart
  \/ \E t \in PollTasks : PollConnect(t)
  \/ \E t \in PollTasks : PollState(t)
  \/ \E t \in PollTasks : PollRef(t)
  \/ \E t \in PollTasks : PollFinally(t)
  \/ \E r \in RemoteTasks, k \in RemoteKinds : RemoteStart(r, k)
  \/ \E r \in RemoteTasks, c \in CommandLists :
       RemoteAcquire(r, IF kind[r] = "async_send_command" THEN c ELSE <<>>)
  \/ \E r \in RemoteTasks : RemoteCancelWait(r)
  \/ \E r \in RemoteTasks : RemoteGuard(r)
  \/ \E r \in RemoteTasks : RemoteConnect(r)
  \/ \E r \in RemoteTasks : RemotePower(r)
  \/ \E r \in RemoteTasks : RemoteKey(r)
  \/ \E r \in RemoteTasks : RemoteKeysDone(r)
  \/ \E r \in RemoteTasks : RemoteFinally(r)
  \/ \E valid \in BOOLEAN : SelectStart(valid)
  \/ SelectSend
  \/ FlowStart
  \/ FlowConnect
  \/ FlowFinally

vars == <<sysVars, cmdVars, hsVars, auxVars>>

Spec == Init /\ [][Next]_vars

\* The command model alone: a command is constructed, responses are attached
\* and the decoded value is read.
InitCmd == SysInit /\ CmdInit /\ HsIdle(None) /\ AuxIdle
NextCmd ==
  \/ \E data \in ResponsesFor(code) : SetResponse(data)
  \/ ReadResponse
  \/ StoreLightTime
SpecCmd == InitCmd /\ [][NextCmd]_vars

--------------------------------------------------------------------------
\* Properties of the command model (under SpecCmd).

\* The text the patterns are matched against, and what the applied rule captured.
Res == code \o _response
WasRead == read # Unread
Captured == Search(formatters[applied], Res).g

\* The first entry of the table, in the order of the source, declared with key k.
Declared(k) == FormatterEntries[Min({i \in 1..Len(FormatterEntries) : FormatterEntries[i].key = k})]

\* A read applied a list rule to a captured hex index at or beyond the list's end.
OutOfRangeRead ==
  /\ WasRead
  /\ applied # 0
  /\ formatters[applied].fmt.type = "list"
  /\ PyInt16(Captured[1]).ok
  /\ PyInt16(Captured[1]).n >= Len(formatters[applied].fmt.items)

\* C8: for every enumerated-list rule and every response whose captured hex
\* digit is an index at or beyond the end of the list, reading
\* JvcCommand.response returns the raw response text and raises no exception.
C8_OutOfRangeIndexGivesRawText == OutOfRangeRead => read = Returns(_response)

\* A read of an IFCM reference command with a one-digit index into the
\* first-declared IFCM list.
IFCM == <<"I", "F", "C", "M">>
IfcmRead ==
  /\ WasRead
  /\ code = IFCM
  /\ is_ref
  /\ _response # None
  /\ Len(_response) = 1
  /\ IsHexDigit(_response[1])
  /\ HexValue(_response[1]) < Len(Declared("IFCM(.)").fmt.items)

\* C9: rules are applied in declaration order and the first declared matching
\* rule decides the value: a response to IFCM, which the table declares
\* twice, is decoded with the first-declared list.
C9_FirstDeclaredRuleDecides ==
  IfcmRead => read = Returns(Declared("IFCM(.)").fmt.items[HexValue(_response[1]) + 1])

\* The text has the whole shape of pattern pat: one of its heads followed by
\* exactly the characters its groups take, with nothing left over.
WholeShape(pat, s) ==
  \E h \in pat.heads :
    /\ IsPrefix(h, s)
    /\ IF pat.groups = <<0>> THEN Len(s) > Len(h) ELSE Len(s) = Len(h) + Sum(pat.groups)

OnlyNewlineEndedDecodedByPrefix ==
  (WasRead /\ applied # 0 /\ ~WholeShape(formatters[applied], Res)) =>
    _response[Len(_response)] = NL
--------------------------------------------------------------------------
\* Properties of the callers (under Spec).

CommandCalls == {"get_state", "ref", "op", "remote", "power_on", "power_off"}
CycleNames == {"_async_update_data", "get_mac_address"} \cup RemoteKinds

\* Operations a and b are a poll and a remote or select operation of
\* different tasks.
PollAndRemote(a, b) == a[1] # b[1] /\ {a[2], b[2]} \in {{"poll", "remote"}, {"poll", "select"}}

\* C1: connect-use-disconnect cycles on one device never overlap: while a poll
\* is between its connect and its disconnect no remote operation calls the
\* device, and the reverse.
C1_CyclesNeverOverlap == \A x \in last.others : ~PollAndRemote(last.by, x)

\* C2: no command is sent unless the connection is Ready: a call that sends
\* a command is preceded in the same operation by a successful connect with
\* no disconnect of the device in between.
C2_CommandsOnlyWhenReady == last.kind \in CommandCalls => last.ready

\* C3: after a device call of an operation timed out, the next device call
\* the operation makes is disconnect.
C3_TimeoutThenDisconnect == last.poisoned => last.kind = "disconnect"

\* C4 as stated: the poll, get_mac_address and the remote operations call
\* disconnect before they return or raise, on every path.
C4_DisconnectOnEveryPath == fin.name \in CycleNames => fin.disc

\* C4, amended: on every path that reached the operation's connect call, the
\* operation calls disconnect before it returns or raises (success, failed
\* connect, timeout, cancellation, ValueError), so no task is idle with a
\* cycle of its own still open; a remote operation cancelled before its
\* connect call ends with no device call.
C4_DisconnectOnceConnected ==
  /\ (fin.name \in CycleNames /\ fin.connected) => fin.disc
  /\ (fin.name \in CycleNames /\ ~fin.connected /\ ~fin.disc) =>
       (fin.outcome = "CancelledError" /\ fin.op[2] = "remote")
  /\ \A o \in cyc : o[2] \in {"poll", "remote", "flow"} => pc[o[1]] \notin {"idle", "done"}

\* An operation that had connected was cancelled and ended after its disconnect call.
C4_CancelledAfterDisconnect ==
  /\ fin.name \in CycleNames
  /\ fin.connected
  /\ fin.disc
  /\ fin.primary = "CancelledError"

\* C5: connect and disconnect calls on one device strictly alternate: connect
\* is never called while an earlier connect has not been followed by a
\* disconnect.
C5_ConnectDisconnectAlternate == last.kind = "connect" => ~last.wasOpen

\* The labels of a remote operation inside "async with self._command_lock".
InLock(r) == pc[r] \notin {"idle", "r_lock"}

C6_Serialized ==
  /\ \A r \in RemoteTasks : InLock(r) <=> lockOwner = r
  /\ \A x \in last.others :
       (last.by[1] \in RemoteTasks /\ x[1] \in RemoteTasks) => x[1] = last.by[1]

\* C6: the remote entity's operations are serialized: at most one of them
\* holds the command lock, the device calls of two remote operations are
\* never interleaved, the lock is released on every exit, and a remote
\* operation that waits for the lock eventually proceeds.
C6_RemoteOperationsSerialized ==
  /\ []C6_Serialized
  /\ \A r \in RemoteTasks : (pc[r] = "r_lock") ~> (pc[r] # "r_lock")

\* A remote operation calls the device while the other one waits for the lock.
C6_CallWhileOtherWaits ==
  /\ last.by[2] = "remote"
  /\ last.kind \in CommandCalls
  /\ \E r \in RemoteTasks : pc[r] = "r_lock" /\ lockOwner \notin {"none", r}

\* C7: a failing disconnect never replaces the primary outcome: when the
\* cleanup's disconnect raises, the caller sees the original result or error.
C7_DisconnectNeverMasks == (fin.disc /\ fin.discRaised) => fin.outcome = fin.primary

\* The entry right after async_setup_entry returned True: the first refresh
\* has disconnected the device and every entity is idle.
Loaded ==
  /\ pc = [t \in Tasks |-> IF t = "setup" THEN "done" ELSE "idle"]
  /\ kind = [t \in RemoteTasks |-> "none"]
  /\ cmds = [t \in RemoteTasks |-> <<>>]
  /\ command = [t \in RemoteTasks |-> <<>>]
  /\ keysSent = [t \in RemoteTasks |-> <<>>]
  /\ lockOwner = "none"
  /\ lastCommandTime = "None"
  /\ currentActivity = None
  /\ loaded = TRUE
  /\ devState = [d \in Devices |-> "Disconnected"]
  /\ refIdx = [t \in Tasks |-> 0]
  /\ pollPend = [t \in Tasks |-> "none"]
  /\ pend = [t \in Tasks |-> "none"]
  /\ started = 0
  /\ cancels = 0
  /\ open = {}
  /\ cyc = {SetupOp}
  /\ ready = {}
  /\ poisoned = {}
  /\ last = [by |-> PollOp("setup"), kind |-> "disconnect", wasOpen |-> TRUE,
             others |-> {SetupOp}, ready |-> TRUE, poisoned |-> FALSE,
             arg |-> NoArg]
  /\ fin = [op |-> SetupOp, name |-> "async_setup_entry", outcome |-> "ok", primary |-> "ok",
            connected |-> TRUE, disc |-> FALSE, discRaised |-> FALSE,
            err |-> "none", state |-> NoState, result |-> NoResult, refs |-> 0]
  /\ err = [t \in Tasks |-> "none"]
  /\ state = [t \in Tasks |-> NoState]
  /\ result = [t \in Tasks |-> NoResult]

\* The steps of remote task r that the event loop runs once they can run.
RemoteStep(r) ==
  \/ \E c \in CommandLists : RemoteAcquire(r, IF kind[r] = "async_send_command" THEN c ELSE <<>>)
  \/ RemoteGuard(r)
  \/ RemoteConnect(r)
  \/ RemotePower(r)
  \/ RemoteKey(r)
  \/ RemoteKeysDone(r)
  \/ PollConnect(r)
  \/ PollState(r)
  \/ PollRef(r)
  \/ PollFinally(r)
  \/ RemoteFinally(r)

\* The remote entity of a loaded entry alone, under an event loop that runs
\* every task that can run.
InitRemote == Loaded /\ CmdIdle /\ HsIdle(None) /\ AuxIdle
NextRemote ==
  \/ \E r \in RemoteTasks, k \in RemoteKinds : RemoteStart(r, k)
  \/ \E r \in RemoteTasks : RemoteCancelWait(r)
  \/ \E r \in RemoteTasks : RemoteStep(r)
SpecRemote == InitRemote /\ [][NextRemote]_vars /\ \A r \in RemoteTasks : WF_vars(RemoteStep(r))

--------------------------------------------------------------------------
\* Further properties of the command model (under SpecCmd).

\* A read applied a list rule to a captured hex index whose entry is None.
ReservedRead ==
  /\ WasRead
  /\ applied # 0
  /\ formatters[applied].fmt.type = "list"
  /\ Len(Captured[1]) = 1
  /\ IsHexDigit(Captured[1][1])
  /\ HexValue(Captured[1][1]) < Len(formatters[applied].fmt.items)
  /\ formatters[applied].fmt.items[HexValue(Captured[1][1]) + 1] = None

\* C11: for an enumerated-list rule whose entry at the decoded index is None
\* (reserved), JvcCommand.response returns None: it neither raises nor falls
\* back to the raw text.
C11_ReservedEntryGivesNone == ReservedRead => read = Returns(None)

\* A read of PMCM with response "1" or "2" (reserved entries) was made.
C11_ReservedPmcmRead ==
  /\ ReservedRead
  /\ code = <<"P", "M", "C", "M">>
  /\ _response \in {<<"1">>, <<"2">>}
  /\ read.exc = "none"

\* A read applied a lookup-map rule to a key the map does not have.
DictMissRead ==
  /\ WasRead
  /\ applied # 0
  /\ formatters[applied].fmt.type = "dict"
  /\ \A k \in 1..Len(formatters[applied].fmt.keys) : formatters[applied].fmt.keys[k] # Captured[1]

\* A read applied a computed-function rule to groups int(x, 16) refuses.
FnFailRead ==
  /\ WasRead
  /\ applied # 0
  /\ formatters[applied].fmt.type = "fn"
  /\ formatters[applied].fmt.fn \in {"hex_to_dec", "ip"}
  /\ \E g \in 1..Len(Captured) : ~PyInt16(Captured[g]).ok

\* C12: a decoder failure other than a list index degrades to the raw text
\* and never raises: a key absent from a lookup map, and an input on which a
\* computed function fails, make JvcCommand.response return the raw response
\* text unchanged.
C12_FailureDegradesToRawText == (DictMissRead \/ FnFailRead) => read = Returns(_response)

\* A read of IFLT with a response that is no hex numeral gave the raw text.
C12_NonHexLightTimeRead ==
  /\ FnFailRead
  /\ code = IFLT
  /\ \E i \in 1..Len(_response) : ~IsHexDigit(_response[i]) /\ _response[i] \notin {"x", "_"}
  /\ read = Returns(_response)

\* No pattern of the table has the shape of the whole text code + rawResponse.
NoPatternHasShape ==
  /\ is_ref
  /\ _response # None
  /\ \A j \in 1..Len(formatters) : ~WholeShape(formatters[j], Res)

NoMatchGivesRawTextUnlessNewlineEnded ==
  (WasRead /\ NoPatternHasShape /\ read # Returns(_response)) => _response[Len(_response)] = NL

\* C14: JvcCommand.response is None for every operation command (is_ref
\* false) whatever response text was attached, and None for every reference
\* command to which no response has been attached yet.
C14_NoneUnlessRefWithResponse == (WasRead /\ (~is_ref \/ _response = None)) => read = Returns(None)

\* An operation command with an attached response that a rule would decode was read.
C14_OperationCommandRead ==
  /\ WasRead
  /\ ~is_ref
  /\ _response # None
  /\ MatchedRule(Res) # 0
  /\ responseWithoutRefCheck(code, is_ref, _response).val # None

\* The value of the last read is the derivation from the command's fields as
\* they are now.
C15_Derived == WasRead => read = response(code, is_ref, _response)

\* C15: the decoded value is a pure derivation of (code, is_ref, attached
\* response): a read changes no field of the command, reads without a new
\* attach give the same value, and a read made after a response is attached
\* reflects that response even if an earlier read returned None.
C15_PureDerivation ==
  /\ []C15_Derived
  /\ [][(WasRead' /\ read' # read) => UNCHANGED <<code, is_ref, _response>>]_vars

\* A read gave None, a response was attached, and the next read gave its value.
C15_ReadAfterNoneRead ==
  /\ WasRead
  /\ readNoneBefore
  /\ read.exc = "none"
  /\ read.val # None

\* The attached response is four hex digits, and the number they denote.
FourHexDigits == _response # None /\ Len(_response) = 4 /\ \A i \in 1..4 : IsHexDigit(_response[i])
Denoted ==
  4096 * HexValue(_response[1]) + 256 * HexValue(_response[2])
    + 16 * HexValue(_response[3]) + HexValue(_response[4])

\* Text s is the decimal numeral of n: decimal digits with no leading zero.
IsNumeralOf(s, n) ==
  /\ PyIsDigit(s)
  /\ Len(s) > 1 => s[1] # "0"
  /\ PyInt(s) = n

\* C19: for every 4-hex-digit response h to the IFLT reference command the
\* decoded value is the decimal numeral of the number h denotes in base 16,
\* and the poll stores it as that integer under the light-source-time key.
C19_LightTimeDecodedAndStored ==
  (code = IFLT /\ is_ref /\ FourHexDigits) =>
    /\ WasRead => (read.exc = "none" /\ IsNumeralOf(read.val, Denoted))
    /\ stored # NotReached => stored = <<"int", Denoted>>

\* The poll stored 400 for the response "0190".
C19_Stored400 ==
  /\ code = IFLT
  /\ is_ref
  /\ _response = <<"0", "1", "9", "0">>
  /\ stored = <<"int", 400>>

--------------------------------------------------------------------------
\* remote.py: the spellings of a key that async_send_command accepts.

Buttons == {REMOTE_BUTTON_MAP[i][1] : i \in 1..Len(REMOTE_BUTTON_MAP)}
KeyCodeOf(b) == Lookup(REMOTE_BUTTON_MAP, b)

\* The letter cases of a spelling that the model draws: all lower, all upper,
\* and the two that alternate, so that every character comes in both cases
\* next to neighbours of either case.
Alternate(s, first) ==
  [i \in 1..Len(s) |-> IF i % 2 = first THEN UpperChar(s[i]) ELSE LowerChar(s[i])]
LetterCases(s) == {Lower(s), Upper(s), Alternate(s, 0), Alternate(s, 1)}

\* The button name, the constant name REMOTE_<B> and the raw key code.
ConstantName(b) == <<"R", "E", "M", "O", "T", "E", "_">> \o Upper(b)
SpellingsOf(b) ==
  LetterCases(b) \cup LetterCases(ConstantName(b)) \cup LetterCases(KeyCodeOf(b))
Spellings == [b \in Buttons |-> SpellingsOf(b)]
UpperKeyCode == [b \in Buttons |-> Upper(KeyCodeOf(b))]

\* Commands that are no spelling of a key: an unknown one, an unknown
\* constant name, and a name of the const module that is no key.
REMOTE_BOGUS == <<"r", "e", "m", "o", "t", "e", "_", "b", "o", "g", "u", "s">>
POWER == <<"p", "o", "w", "e", "r">>
KeyLists == {<<s>> : s \in UNION {Spellings[b] : b \in Buttons}}
              \cup {<<BOGUS>>, <<REMOTE_BOGUS>>, <<POWER>>}

\* async_send_command alone, on a loaded entry: one task sends one command
\* per call.
InitKeys == Loaded /\ CmdIdle /\ HsIdle(None) /\ AuxIdle
NextKeys ==
  \/ RemoteStart("r1", "async_send_command")
  \/ \E c \in KeyLists : RemoteAcquire("r1", c)
  \/ RemoteConnect("r1")
  \/ RemoteKey("r1")
  \/ RemoteKeysDone("r1")
  \/ RemoteFinally("r1")
SpecKeys == InitKeys /\ [][NextKeys]_vars

\* Task r runs one round of the for loop on a spelling of button b.
RoundOn(r, b) ==
  /\ pc[r] = "r_key"
  /\ cmds[r] # <<>>
  /\ Head(cmds[r]) \in Spellings[b]
  /\ cmds'[r] # cmds[r]

\* C20: for every button b of REMOTE_BUTTON_MAP, the button name, the
\* constant name REMOTE_<B> and the raw 4-hex-digit code, each in any letter
\* case, make the round call device.remote with REMOTE_BUTTON_MAP[b] in
\* uppercase: the round raises no ValueError and sends no other code.
C20_SpellingsResolveToKeyCode ==
  [][\A r \in RemoteTasks, b \in Buttons :
       RoundOn(r, b) =>
         /\ last'.by = RemoteOp(r)
         /\ last'.kind = "remote"
         /\ last'.arg.cmd = Head(cmds[r])
         /\ last'.arg.key_code = UpperKeyCode[b]
         /\ pend'[r] # "ValueError"]_vars

\* The constant name of the menu key in mixed case was sent as 732E.
C20_MixedCaseConstantSent ==
  /\ last.kind = "remote"
  /\ last.arg.cmd = <<"r", "E", "m", "O", "t", "E", "_", "M", "e", "N", "u">>
  /\ last.arg.key_code = <<"7", "3", "2", "E">>

--------------------------------------------------------------------------
\* How the poll and async_setup_entry report what connect or get_state raised.

SetupOrPoll == fin.name \in {"_async_update_data", "async_setup_entry"}
Retryable(name) == IF name = "async_setup_entry" THEN "ConfigEntryNotReady" ELSE "UpdateFailed"

AuthRoutedApart ==
  /\ fin.err = "auth_error" => fin.outcome = "ConfigEntryAuthFailed"
  /\ fin.err \in {"connect_error", "timeout"} => fin.outcome = Retryable(fin.name)
  /\ fin.outcome = "ConfigEntryAuthFailed" => fin.err = "auth_error"

\* C16: when connect or get_state raises JvcProjectorAuthError the poll and
\* async_setup_entry raise ConfigEntryAuthFailed; a JvcProjectorConnectError
\* or a timeout makes the poll raise UpdateFailed and setup raise
\* ConfigEntryNotReady; ConfigEntryAuthFailed is raised for nothing else.
\* A task that is cancelled meanwhile raises CancelledError.
C16_AuthRoutedApartFromConnect ==
  (SetupOrPoll /\ fin.outcome # "CancelledError") => AuthRoutedApart

\* The same, for the operations whose cleanup's disconnect did not raise.
AuthRoutedApartUnlessDisconnectRaises ==
  (SetupOrPoll /\ fin.outcome # "CancelledError" /\ ~fin.discRaised) => AuthRoutedApart

\* The poll and setup did report a rejected password as ConfigEntryAuthFailed.
AuthFailureReported ==
  /\ SetupOrPoll
  /\ fin.err = "auth_error"
  /\ fin.outcome = "ConfigEntryAuthFailed"

--------------------------------------------------------------------------
\* The poll with the power not on.

STANDBY == <<"s", "t", "a", "n", "d", "b", "y">>

\* C18: when the base state's power is not "on" (standby, cooling, warming,
\* error, or missing), the poll sends no reference command after get_state:
\* the extended queries are sent only by a poll whose base power is "on",
\* and the poll returns the decoded base power (none when it is missing).
C18_NoExtendedQueryUnlessOn ==
  /\ \A t \in PollTasks :
       (pc[t] = "p_ref" \/ (last.kind = "ref" /\ last.by = PollOp(t)))
         => state[t] = ON
  /\ (fin.name = "_async_update_data" /\ fin.state \notin {NoState, ON}) =>
       /\ fin.refs = 0
       /\ fin.outcome = "ok" =>
            fin.result.power = (IF fin.state = None THEN Absent ELSE fin.state)

\* A poll of a projector in standby returned, with no extended query sent.
C18_StandbyPollReturned ==
  /\ fin.name = "_async_update_data"
  /\ fin.outcome = "ok"
  /\ fin.state = STANDBY
  /\ fin.result = [power |-> STANDBY, iflt |-> <<"power_off">>]
  /\ fin.refs = 0
  /\ last.by = fin.op
  /\ last.kind = "disconnect"

--------------------------------------------------------------------------
\* The handshake alone: one Connection is connected and disconnected.

InitHandshake == SysInit /\ CmdIdle /\ \E pw \in Passwords : HsIdle(pw) /\ AuxIdle
NextHandshake ==
  \/ HsConnect
  \/ \E ok \in BOOLEAN : HsOpened(ok)
  \/ \E g \in Reads : HsGreeting(g)
  \/ \E a \in Reads : HsAck(a)
  \/ HsDisconnect
SpecHandshake == InitHandshake /\ [][NextHandshake]_vars

\* What a connect that has ended has ended with, by what it read.
HandshakeOutcome ==
  /\ hs = "Ready" =>
       /\ hsError = "none"
       /\ received = <<PJOK, PJACK>>
       /\ sent = <<Request>>
  /\ hs = "Failed" =>
       /\ hsError \in {"JvcProjectorConnectError", "JvcProjectorAuthError"}
       /\ Len(received) = 0 => hsError = "JvcProjectorConnectError"
       /\ Len(received) = 1 =>
            received[1] # PJOK /\ hsError = "JvcProjectorConnectError" /\ sent = <<>>
       /\ Len(received) = 2 =>
            /\ received[1] = PJOK
            /\ received[2] # PJACK
            /\ hsError = IF received[2] = PJNAK THEN "JvcProjectorAuthError"
                         ELSE "JvcProjectorConnectError"
  /\ (hs \in {"Connecting", "AwaitingGreeting", "Authenticating"}) => hsError = "none"

\* A step out of a terminal state is a disconnect.
LeftByDisconnect == hs' = "Disconnected" \/ UNCHANGED <<hs, hsError, received, sent>>

\* C17: the handshake reaches exactly one terminal outcome per connect: a
\* greeting other than PJ_OK gives Failed with ConnectError, PJNAK gives
\* Failed with AuthError, PJACK gives Ready after a single
\* greeting/request/ack round trip, any other acknowledgment or a timeout
\* gives Failed with ConnectError; Ready is never reached without PJACK, and
\* a terminal state is left only by a disconnect.
C17_OneTerminalOutcome ==
  /\ []HandshakeOutcome
  /\ [][(hs \in Terminal) => LeftByDisconnect]_vars

\* A second connect reached Ready with a password, after a first one failed.
C17_ReadyAfterFailedConnect ==
  /\ hs = "Ready"
  /\ connects = 2
  /\ received = <<PJOK, PJACK>>
  /\ sent = <<[token |-> PJREQ, auth |-> TRUE]>>

--------------------------------------------------------------------------
\* The key codes that reach device.remote.

FourUpperHexDigits(s) == Len(s) = 4 /\ \A i \in 1..4 : s[i] \in HexChars

\* C27: every key code that async_send_command passes to device.remote is a
\* string of exactly four uppercase hexadecimal digits, whatever the command
\* string was: a command that is no button name, no REMOTE_* name and no
\* 4-hex-digit code ("power", "off", "hdmi1", "iflt") sends nothing.
C27_KeyCodesAreFourUpperHex ==
  last.kind = "remote" => FourUpperHexDigits(last.arg.key_code)

\* The same, for the commands that name no attribute of the const module.
KeyCodesAreFourUpperHexUnlessConstName ==
  (last.kind = "remote" /\ ~Has(ConstAttrs, Upper(last.arg.cmd))) =>
     FourUpperHexDigits(last.arg.key_code)

--------------------------------------------------------------------------
\* The keys of one async_send_command call.

Sending(r) == kind[r] = "async_send_command" /\ pc[r] \in {"r_key", "r_finally"}
Unresolved(list) == {i \in 1..Len(list) : ~ResolveCommand(list[i]).ok}
FirstUnresolved(list) == CHOOSE k \in Unresolved(list) : \A i \in Unresolved(list) : k <= i
ButtonsAmong(list, n) == {i \in 1..n : Has(REMOTE_BUTTON_MAP, Lower(list[i]))}
LastOf(S) == CHOOSE k \in S : \A i \in S : i <= k

\* The device.remote calls made so far are the first commands of the list,
\* in list order, each with the key code it resolves to, and they are made
\* between the call's connect and its disconnect.
SentInListOrder(r) ==
  /\ Len(keysSent[r]) <= Len(command[r])
  /\ \A i \in 1..Len(keysSent[r]) :
       /\ ResolveCommand(command[r][i]).ok
       /\ keysSent[r][i] = [cmd |-> command[r][i],
                            key_code |-> ResolveCommand(command[r][i]).key_code]
  /\ (last.kind = "remote" /\ last.by = RemoteOp(r)) => RemoteOp(r) \in cyc

\* The call raises ValueError for the k-th command: the k-1 commands before
\* it have been sent, and current_activity is the last button name among them.
ValueErrorAtFirstUnresolved(r) ==
  (pc[r] = "r_finally" /\ pend[r] = "ValueError") =>
     /\ Unresolved(command[r]) # {}
     /\ LET k == FirstUnresolved(command[r])
        IN /\ Len(keysSent[r]) = k - 1
           /\ ButtonsAmong(command[r], k - 1) # {} =>
                currentActivity = Lower(command[r][LastOf(ButtonsAmong(command[r], k - 1))])

\* C25: async_send_command sends the keys of a command list in list order
\* within a single connect-disconnect cycle; when the k-th command cannot be
\* resolved it raises ValueError, every command before k has been sent, no
\* command at or after k is sent, and current_activity is left at the last
\* button-map name sent.
C25_KeysSentInOrderUntilUnresolved ==
  \A r \in RemoteTasks : Sending(r) => SentInListOrder(r) /\ ValueErrorAtFirstUnresolved(r)

\* A raw code was sent, the unknown second command raised ValueError and the
\* button after it was not sent.
C25_ValueErrorAfterFirstKey ==
  \E r \in RemoteTasks :
    /\ pc[r] = "r_finally"
    /\ pend[r] = "ValueError"
    /\ command[r] = <<RAW, BOGUS, MENU>>
    /\ keysSent[r] = <<[cmd |-> RAW, key_code |-> <<"7", "3", "2", "E">>]>>
--------------------------------------------------------------------------
\* select.py: what the select entities write against what the command
\* decoder reads

PMPM == <<"P", "M", "P", "M">>
PMCT == <<"P", "M", "C", "T">>

\* select.py 29-42
PICTURE_MODE_TO_CODE ==
  <<
  [option |-> <<"c", "i", "n", "e", "m", "a">>, code |-> <<"0", "1">>],
  [option |-> <<"n", "a", "t", "u", "r", "a", "l">>, code |-> <<"0", "3">>],
  [option |-> <<"f", "r", "a", "m", "e", "_", "a", "d", "a", "p", "t", "_", "h", "d", "r">>, code |-> <<"0", "B">>],
  [option |-> <<"s", "d", "r", "1">>, code |-> <<"0", "C">>],
  [option |-> <<"s", "d", "r", "2">>, code |-> <<"0", "D">>],
  [option |-> <<"h", "d", "r", "1">>, code |-> <<"0", "E">>],
  [option |-> <<"h", "d", "r", "2">>, code |-> <<"0", "F">>],
  [option |-> <<"h", "l", "g">>, code |-> <<"1", "4">>],
  [option |-> <<"h", "d", "r", "1", "0", "+">>, code |-> <<"1", "5">>],
  [option |-> <<"f", "i", "l", "m", "m", "a", "k", "e", "r">>, code |-> <<"1", "7">>],
  [option |-> <<"f", "r", "a", "m", "e", "_", "a", "d", "a", "p", "t", "_", "h", "d", "r", "2">>, code |-> <<"1", "8">>],
  [option |-> <<"v", "i", "v", "i", "d">>, code |-> <<"1", "B">>]
  >>

\* select.py 45-51
CONTENT_TYPE_TO_CODE ==
  <<
  [option |-> <<"a", "u", "t", "o">>, code |-> <<"0">>],
  [option |-> <<"s", "d", "r">>, code |-> <<"1">>],
  [option |-> <<"h", "d", "r", "1", "0", "+">>, code |-> <<"2">>],
  [option |-> <<"h", "d", "r", "1", "0">>, code |-> <<"3">>],
  [option |-> <<"h", "l", "g">>, code |-> <<"4">>]
  >>

\* JVC_SELECTS: the table and the formatter rule behind a command_code.
TableFor(command_code) == IF command_code = PMPM THEN PICTURE_MODE_TO_CODE ELSE CONTENT_TYPE_TO_CODE
RuleFor(command_code) == IF command_code = PMPM THEN Declared("PMPM(..)") ELSE Declared("PMCT(.)")

\* options=list(<table>.keys())
OptionsOf(table) == {table[i].option : i \in 1..Len(table)}

\* A lookup that takes the code of the entry before the option's own.
GetShifted(table, option) ==
  LET at == {i \in 1..Len(table) : table[i].option = option}
  IN IF at = {} THEN None ELSE table[IF Min(at) = 1 THEN Len(table) ELSE Min(at) - 1].code

\* <table>.get(option)
Get(table, option) ==
  LET at == {i \in 1..Len(table) : table[i].option = option}
  IN IF at = {} THEN None ELSE table[Min(at)].code

\* The texts a rule's map has as keys, and two texts it has not.
RuleKeys(command_code) == {RuleFor(command_code).fmt.keys[i] : i \in 1..Len(RuleFor(command_code).fmt.keys)}
UnlistedCodes == {<<"F", "F">>, <<"9">>}

\* Options handed to the lookup: the select's own and one that is none of them.
USER1 == <<"u", "s", "e", "r", "1">>
SelInit ==
  /\ selCommand \in {PMPM, PMCT}
  /\ selOption \in OptionsOf(TableFor(selCommand)) \cup {USER1}
  /\ selCode = Unset
  /\ selDecoded = Unread
  /\ selRead = NoRead

\* code = PICTURE_MODE_TO_CODE.get(option) / CONTENT_TYPE_TO_CODE.get(option)
SelLookup ==
  /\ selCode = Unset
  /\ selCode' = Get(TableFor(selCommand), selOption)
  /\ UNCHANGED <<selCommand, selOption, selDecoded, selRead>>
  /\ UNCHANGED <<sysVars, cmdVars, hsVars, numVars, flowVars, pollXVars>>

\* The projector reports the code that was written, and the reference
\* response is decoded.
SelDecode ==
  /\ selCode \notin {Unset, None}
  /\ selDecoded = Unread
  /\ selDecoded' = response(selCommand, TRUE, selCode)
  /\ UNCHANGED <<selCommand, selOption, selCode, selRead>>
  /\ UNCHANGED <<sysVars, cmdVars, hsVars, numVars, flowVars, pollXVars>>

\* The projector reports resp and the reference response is decoded.
SelRead(resp) ==
  /\ selRead = NoRead
  /\ selRead' = [resp |-> resp, read |-> response(selCommand, TRUE, resp)]
  /\ UNCHANGED <<selCommand, selOption, selCode, selDecoded>>
  /\ UNCHANGED <<sysVars, cmdVars, hsVars, numVars, flowVars, pollXVars>>

InitSelect == SysInit /\ CmdIdle /\ HsIdle(None) /\ SelInit /\ NumIdle /\ FlowIdle /\ PollXIdle
NextSelect ==
  \/ SelLookup
  \/ SelDecode
  \/ \E resp \in RuleKeys(selCommand) \cup UnlistedCodes : SelRead(resp)
SpecSelect == InitSelect /\ [][NextSelect]_vars

\* C29: the write codes are the inverse of the read decoding: for every option
\* o of the picture-mode and of the content-type select, decoding the reference
\* response <table>[o] for the select's command code yields o, and every
\* value the PMPM and PMCT rules decode to is one of the select's options.
C29_WriteCodesInvertDecoding ==
  /\ selOption \in OptionsOf(TableFor(selCommand)) =>
       /\ selCode # Unset => selCode # None
       /\ selDecoded # Unread => selDecoded = Returns(selOption)
  /\ (selRead # NoRead /\ selRead.resp \in RuleKeys(selCommand)) =>
       /\ selRead.read.exc = "none"
       /\ selRead.read.val \in OptionsOf(TableFor(selCommand))

\* The code of content type hdr10+ was decoded, and a response the PMCT rule
\* lists was read.
C29_Hdr10PlusDecoded ==
  /\ selCommand = PMCT
  /\ selOption = <<"h", "d", "r", "1", "0", "+">>
  /\ selCode = <<"2">>
  /\ selDecoded # Unread
  /\ selRead # NoRead
  /\ selRead.resp \in RuleKeys(PMCT)

--------------------------------------------------------------------------
\* number.py: JvcNumber

LD_CURRENT_MIN == 109
LD_CURRENT_MAX == 219
PMCV == <<"P", "M", "C", "V">>

\* round(num / den) for den > 0: to the nearest integer, a tie to the even one.
Round(num, den) ==
  LET q == num \div den
      r == num % den
  IN CASE 2 * r < den -> q
       [] 2 * r > den -> q + 1
       [] OTHER -> IF q % 2 = 0 THEN q ELSE q + 1

Max2(a, b) == IF a >= b THEN a ELSE b
Min2(a, b) == IF a <= b THEN a ELSE b

\* ha_value = max(1, min(100, value))
Clamped(value) == Max2(1, Min2(100, value))

\* A mapping that truncates where the code rounds.
ProtocolValueTruncated(value) ==
  (LD_CURRENT_MIN * 99 + (Clamped(value) - 1) * (LD_CURRENT_MAX - LD_CURRENT_MIN)) \div 99

\* protocol_value = int(round(LD_CURRENT_MIN + ((ha_value - 1) / 99) *
\* (LD_CURRENT_MAX - LD_CURRENT_MIN)))
ProtocolValue(value) ==
  Round(LD_CURRENT_MIN * 99 + (Clamped(value) - 1) * (LD_CURRENT_MAX - LD_CURRENT_MIN), 99)

\* The hexadecimal numeral of n >= 0 in upper case, and f"{n:04X}".
RECURSIVE HexNumeral(_)
HexNumeral(n) == IF n < 16 THEN <<UpperHex[n + 1]>> ELSE Append(HexNumeral(n \div 16), UpperHex[(n % 16) + 1])
RECURSIVE ZeroPad(_, _)
ZeroPad(s, width) == IF Len(s) >= width THEN s ELSE ZeroPad(<<"0">> \o s, width)
Format04X(n) == ZeroPad(HexNumeral(n), 4)

\* JvcNumber.native_value for the stored value raw: None for an absent
\* value, else the protocol value clamped and mapped to 1..100.
native_value(raw) ==
  IF raw = Absent THEN None
  ELSE LET protocol_value == Max2(LD_CURRENT_MIN, Min2(LD_CURRENT_MAX, raw[2]))
       IN <<"int", Round((protocol_value - LD_CURRENT_MIN) * 99 + (LD_CURRENT_MAX - LD_CURRENT_MIN),
                         LD_CURRENT_MAX - LD_CURRENT_MIN)>>

\* The values the entity is set to: its range 1..100 and values beyond it.
NumValues == (0 - 2)..103

otherAuxOfNum == <<selVars, flowVars, pollXVars>>

\* async_set_native_value up to "await asyncio.wait_for(device.op(...))"
NumSet(value) ==
  /\ numPc = "idle"
  /\ numPc' = "op"
  /\ numValue' = value
  /\ numSent' = <<PMCV, Format04X(ProtocolValue(value))>>
  /\ numBefore' = numStored
  /\ numRefresh' = FALSE
  /\ numRaised' = "none"
  /\ numOp' = "none"
  /\ numNative' = Unset
  /\ UNCHANGED numStored
  /\ UNCHANGED <<sysVars, cmdVars, hsVars, otherAuxOfNum>>

\* What an except clause of async_set_native_value raises: its log call
\* formats int_value, a name the function never binds.
NumExcept(res) == "NameError"

\* device.op returned or raised: the value is stored and a refresh requested,
\* or an except clause runs.
NumOp(res) ==
  /\ numPc = "op"
  /\ numPc' = "done"
  /\ numOp' = res
  /\ IF res = "ok"
     THEN /\ numStored' = <<"int", ProtocolValue(numValue)>>
          /\ numRefresh' = TRUE
          /\ numRaised' = "none"
     ELSE /\ numRaised' = NumExcept(res)
          /\ UNCHANGED <<numStored, numRefresh>>
  /\ UNCHANGED <<numValue, numSent, numBefore, numNative>>
  /\ UNCHANGED <<sysVars, cmdVars, hsVars, otherAuxOfNum>>

\* The entity's native_value is read.
NumRead ==
  /\ numPc = "done"
  /\ numNative = Unset
  /\ numNative' = native_value(numStored)
  /\ UNCHANGED <<numPc, numValue, numSent, numBefore, numStored, numRefresh, numRaised, numOp>>
  /\ UNCHANGED <<sysVars, cmdVars, hsVars, otherAuxOfNum>>

\* The entity before a call: nothing stored yet, or the protocol value that
\* an earlier call stored.
NumInit ==
  /\ numPc = "idle"
  /\ numValue = 0
  /\ numSent = Unset
  /\ numBefore = Absent
  /\ numStored \in {Absent} \cup {<<"int", ProtocolValue(w)>> : w \in {1, 50, 100}}
  /\ numRefresh = FALSE
  /\ numRaised = "none"
  /\ numOp = "none"
  /\ numNative = Unset

InitNumber == SysInit /\ CmdIdle /\ HsIdle(None) /\ SelIdle /\ NumInit /\ FlowIdle /\ PollXIdle
NextNumber ==
  \/ \E value \in NumValues : NumSet(value)
  \/ \E res \in {"ok", "timeout", "error"} : NumOp(res)
  \/ NumRead
SpecNumber == InitNumber /\ [][NextNumber]_vars

\* The protocol value that the call in progress or just finished computed.
Sent == numSent[2]
SentValue == IF numSent = Unset THEN 0 ELSE 4096 * HexValue(Sent[1]) + 256 * HexValue(Sent[2]) + 16 * HexValue(Sent[3]) + HexValue(Sent[4])

C26_SetNeverRaises ==
  numPc = "done" =>
    /\ numRaised = "none"
    /\ numOp # "ok" => (numStored = numBefore /\ ~numRefresh)
    /\ numOp = "ok" => (numStored = <<"int", SentValue>> /\ numRefresh)

\* What holds of a failed call: it leaves the stored value and asks for no
\* refresh, and what it raises is the NameError of its own except clause.
FailedSetLeavesStoredValue ==
  numPc = "done" =>
    /\ numOp # "ok" => (numStored = numBefore /\ ~numRefresh /\ numRaised = "NameError")
    /\ numOp = "ok" => (numStored = <<"int", SentValue>> /\ numRefresh /\ numRaised = "none")

--------------------------------------------------------------------------
\* config_flow.py: async_step_user and async_step_reauth_confirm

otherAuxOfFlow == <<selVars, numVars, pollXVars>>

\* homeassistant.util.network.is_host_valid, for the two hosts of the model
BAD_HOST == "bad host"
is_host_valid(host) == host # BAD_HOST

\* user_input of async_step_user: None, or host, port and an optional password
NO_PASSWORD == "<None>"
UserInputs ==
  {NoInput} \cup
  [given : {TRUE}, host : {StoredEntry.host, BAD_HOST}, port : {StoredEntry.port}, password : {NO_PASSWORD, "new"}]

\* user_input of async_step_reauth_confirm: None, or a mapping that holds the
\* password unless the optional field was left empty
NO_KEY == "<no key>"
ReauthInputs ==
  {NoInput} \cup
  [given : {TRUE}, host : {"-"}, port : {0}, password : {NO_KEY, "new", "bad"}]

\* How get_mac_address ends: the finally's disconnect is guarded by "except
\* Exception", so it changes the outcome only when it is cancelled.
get_mac_address(res, dres) == AfterCleanup(dres, FlowRaise(res))

\* except clauses that take an authentication failure for a connect failure
StepErrorAuthAsConnect(exc) ==
  CASE exc = "InvalidHost" -> "invalid_host"
    [] exc = "TimeoutError" -> "cannot_connect"
    [] exc = "JvcProjectorConnectError" -> "cannot_connect"
    [] exc = "JvcProjectorAuthError" -> "cannot_connect"
    [] OTHER -> "unknown"

\* errors["base"] that the except clauses of a step set for exception exc
StepError(exc) ==
  CASE exc = "InvalidHost" -> "invalid_host"
    [] exc = "TimeoutError" -> "cannot_connect"
    [] exc = "JvcProjectorConnectError" -> "cannot_connect"
    [] exc = "JvcProjectorAuthError" -> "invalid_auth"
    [] OTHER -> "unknown"

ShowForm(step_id, errors) == [type |-> "form", step_id |-> step_id, errors |-> errors, raised |-> "none"]
StepRaised(exc) == [type |-> "-", step_id |-> "-", errors |-> "-", raised |-> exc]
DataOf(input) == [host |-> input.host, port |-> input.port, password |-> input.password]

\* A step begins: what every step resets.
StepBegins(step, input) ==
  /\ fPc \in {"idle", "done"}
  /\ fStep' = step
  /\ fInput' = input
  /\ fCreated' = NoData
  /\ fBefore' = fStored
  /\ fReloads' = 0
  /\ fTried' = 0
  /\ fConn' = "-"
  /\ fMac' = "-"
  /\ UNCHANGED fStored
  /\ UNCHANGED <<sysVars, cmdVars, hsVars, otherAuxOfFlow>>

\* async_step_user up to "mac = await get_mac_address(host, port, password)"
UserStep(input) ==
  /\ StepBegins("user", input)
  /\ IF ~input.given
     THEN fPc' = "done" /\ fResult' = ShowForm("user", "none")
     ELSE IF ~is_host_valid(input.host)
     THEN fPc' = "done" /\ fResult' = ShowForm("user", StepError("InvalidHost"))
     ELSE fPc' = "mac" /\ fResult' = NoStepResult

\* get_mac_address returned or raised in async_step_user; configured says
\* whether _abort_if_unique_id_configured finds the MAC address configured.
UserMac(res, dres, configured) ==
  /\ fPc = "mac"
  /\ fStep = "user"
  /\ fPc' = "done"
  /\ fTried' = fTried + 1
  /\ fConn' = res
  /\ LET out == get_mac_address(res, dres)
     IN /\ fMac' = out
        /\ CASE out = "ok" /\ configured ->
                  /\ fResult' = [type |-> "abort", step_id |-> "-", errors |-> "already_configured", raised |-> "none"]
                  /\ UNCHANGED fCreated
             [] out = "ok" /\ ~configured ->
                  /\ fResult' = [type |-> "create_entry", step_id |-> "-", errors |-> "none", raised |-> "none"]
                  /\ fCreated' = DataOf(fInput)
             [] out = "CancelledError" ->
                  /\ fResult' = StepRaised(out)
                  /\ UNCHANGED fCreated
             [] OTHER ->
                  /\ fResult' = ShowForm("user", StepError(out))
                  /\ UNCHANGED fCreated
  /\ UNCHANGED <<fStep, fInput, fBefore, fStored, fReloads>>
  /\ UNCHANGED <<sysVars, cmdVars, hsVars, otherAuxOfFlow>>

\* async_step_reauth_confirm up to "await get_mac_address(host, port,
\* password)"; password = user_input[CONF_PASSWORD] raises KeyError when the
\* mapping has no password.
ReauthStep(input) ==
  /\ StepBegins("reauth_confirm", input)
  /\ IF ~input.given
     THEN fPc' = "done" /\ fResult' = ShowForm("reauth_confirm", "none")
     ELSE IF input.password = NO_KEY
     THEN fPc' = "done" /\ fResult' = StepRaised("KeyError")
     ELSE fPc' = "mac" /\ fResult' = NoStepResult

\* get_mac_address returned or raised in async_step_reauth_confirm.
ReauthMac(res, dres) ==
  /\ fPc = "mac"
  /\ fStep = "reauth_confirm"
  /\ fPc' = "done"
  /\ fTried' = fTried + 1
  /\ fConn' = res
  /\ LET out == get_mac_address(res, dres)
     IN /\ fMac' = out
        /\ CASE out = "ok" ->
                  /\ fStored' = [host |-> fStored.host, port |-> fStored.port, password |-> fInput.password]
                  /\ fReloads' = fReloads + 1
                  /\ fResult' = [type |-> "abort", step_id |-> "-", errors |-> "reauth_successful", raised |-> "none"]
             [] out = "CancelledError" ->
                  /\ fResult' = StepRaised(out)
                  /\ UNCHANGED <<fStored, fReloads>>
             [] OTHER ->
                  /\ fResult' = ShowForm("reauth_confirm", StepError(out))
                  /\ UNCHANGED <<fStored, fReloads>>
  /\ UNCHANGED <<fStep, fInput, fCreated, fBefore>>
  /\ UNCHANGED <<sysVars, cmdVars, hsVars, otherAuxOfFlow>>

ConnectResults == {"ok", "no_mac", "timeout", "connect_error", "auth_error", "error", "cancelled"}
DisconnectResults == {"ok", "raise", "cancelled"}

InitFlow == SysInit /\ CmdIdle /\ HsIdle(None) /\ AuxIdle
NextFlow ==
  \/ \E input \in UserInputs : UserStep(input)
  \/ \E res \in ConnectResults, dres \in DisconnectResults, configured \in BOOLEAN : UserMac(res, dres, configured)
  \/ \E input \in ReauthInputs : ReauthStep(input)
  \/ \E res \in ConnectResults, dres \in DisconnectResults : ReauthMac(res, dres)
SpecFlow == InitFlow /\ [][NextFlow]_vars

UserDone == fPc = "done" /\ fStep = "user"
ReauthDone == fPc = "done" /\ fStep = "reauth_confirm"
NoEntryAndForm(step_id, errors) == fCreated = NoData /\ fResult = ShowForm(step_id, errors)

\* C23: async_step_user creates a config entry only when get_mac_address
\* returned a MAC address; an invalid host gives invalid_host with no
\* connection attempt; a timeout, a JvcProjectorConnectError or an empty MAC
\* gives cannot_connect, a JvcProjectorAuthError invalid_auth, any other
\* exception unknown; in every error case the form is shown again and no
\* entry is created.
C23_EntryOnlyWithMac ==
  UserDone =>
    /\ (fCreated # NoData \/ fResult.type = "create_entry") =>
         (fMac = "ok" /\ fConn = "ok" /\ fCreated = DataOf(fInput) /\ fResult.type = "create_entry")
    /\ (fInput.given /\ ~is_host_valid(fInput.host)) => (fTried = 0 /\ NoEntryAndForm("user", "invalid_host"))
    /\ (fMac = "TimeoutError" \/ fMac = "JvcProjectorConnectError" \/ fConn = "no_mac") =>
         (fMac # "CancelledError" => NoEntryAndForm("user", "cannot_connect"))
    /\ fMac = "JvcProjectorAuthError" => NoEntryAndForm("user", "invalid_auth")
    /\ fMac = "JvcProjectorError" => NoEntryAndForm("user", "unknown")

\* The device connected but gave no MAC address, and the form came back with
\* cannot_connect.
C23_EmptyMacShownAsCannotConnect ==
  /\ UserDone
  /\ fConn = "no_mac"
  /\ fTried = 1
  /\ fResult = ShowForm("user", "cannot_connect")

\* C24: async_step_reauth_confirm updates the stored entry (host and port
\* unchanged, password replaced) and reloads it only after a connection with
\* the new password succeeded; on a timeout, connect error, auth error or any
\* other exception the stored data is unchanged, nothing is reloaded and the
\* form is shown again with the matching error.
C24_ReauthUpdatesOnlyAfterConnect ==
  ReauthDone =>
    /\ (fStored # fBefore \/ fReloads > 0) =>
         /\ fMac = "ok"
         /\ fStored = [host |-> fBefore.host, port |-> fBefore.port, password |-> fInput.password]
         /\ fReloads = 1
    /\ (fInput.given /\ fMac # "ok" /\ fMac # "CancelledError" /\ fResult.raised # "CancelledError") =>
         /\ fStored = fBefore
         /\ fReloads = 0
         /\ fResult.type = "form"
         /\ fResult.step_id = "reauth_confirm"
         /\ fTried = 1 => fResult.errors = StepError(fMac)

\* What holds of a step whose input has a password: the claim as stated.
ReauthUpdatesOnlyAfterConnectWithPassword ==
  (ReauthDone /\ fInput.password # NO_KEY) => C24_ReauthUpdatesOnlyAfterConnect

\* What holds without one: the step raises KeyError before any connection,
\* with the stored data unchanged and nothing reloaded.
ReauthWithoutPasswordRaises ==
  (ReauthDone /\ fInput.given /\ fInput.password = NO_KEY) =>
    (fResult = StepRaised("KeyError") /\ fTried = 0 /\ fStored = fBefore /\ fReloads = 0)

--------------------------------------------------------------------------
\* coordinator.py: _async_update_data with what it stores in result

otherAuxOfPollX == <<selVars, numVars, flowVars>>

COOLING == <<"c", "o", "o", "l", "i", "n", "g">>
POWER_OFF == <<"p", "o", "w", "e", "r", "_", "o", "f", "f">>
HDMI1 == <<"h", "d", "m", "i", "1">>
SIGNAL == <<"s", "i", "g", "n", "a", "l">>

\* The extended queries in the order of the code: the command, the key of
\* result it is stored under, the formatter rule that decodes it and the
\* response the projector of the model gives.
XQueries ==
  <<
  [code |-> IFLT, key |-> "IFLT", raw |-> <<"0", "1", "9", "0">>],
  [code |-> <<"I", "F", "I", "S">>, key |-> "IFIS", raw |-> Declared("IFIS(..)").fmt.keys[1]],
  [code |-> <<"I", "F", "I", "N">>, key |-> "IFIN", raw |-> <<"6">>],
  [code |-> PMCT, key |-> "CONTENT_TYPE", raw |-> <<"3">>],
  [code |-> <<"P", "M", "A", "T">>, key |-> "SOURCE_CONTENT_TYPE", raw |-> <<"3">>],
  [code |-> PMPM, key |-> "PICTURE_MODE", raw |-> <<"0", "B">>]
  >>

\* What device.ref(code) returns for the projector's response.
DecodedOf(i) == response(XQueries[i].code, TRUE, XQueries[i].raw).val

\* The attributes that jvcprojector/const.py does not define; reading one of
\* them raises AttributeError unless the imported const has it.
MissingNames == {"CONTENT_TYPE", "CONTENT_TYPE_DIAGNOSTIC", "SOURCE_CONTENT_TYPE", "PICTURE_MODE"}
Resolves(name) == name \notin MissingNames \/ constHasKeys

DictGet(d, k) == IF d[k] = Absent THEN None ELSE d[k]

\* The poll begins.
PollXStart ==
  /\ xPc = "idle"
  /\ xPc' = "connect"
  /\ UNCHANGED <<constHasKeys, xIdx, xAnswers, xResult, xOut, xData>>
  /\ UNCHANGED <<sysVars, cmdVars, hsVars, otherAuxOfPollX>>

\* The poll ends by raising exc, past its guarded disconnect.
PollXRaises(exc) ==
  /\ xPc' = "done"
  /\ xIdx' = 0
  /\ xOut' = exc
  /\ UNCHANGED xData

\* await asyncio.wait_for(self.device.connect(get_info=False), ...)
PollXConnect(res) ==
  /\ xPc = "connect"
  /\ IF res = "ok"
     THEN xPc' = "state" /\ UNCHANGED <<xIdx, xOut, xData>>
     ELSE PollXRaises(PollRaise(res))
  /\ UNCHANGED <<constHasKeys, xAnswers, xResult>>
  /\ UNCHANGED <<sysVars, cmdVars, hsVars, otherAuxOfPollX>>

\* state = await asyncio.wait_for(self.device.get_state(), ...); result is
\* state without its None values; with the power not on the else branch
\* stores "power_off".
PollXState(res, power) ==
  /\ xPc = "state"
  /\ IF res = "ok"
     THEN LET base == [EmptyDict EXCEPT !["power"] = IF power = None THEN Absent ELSE power,
                                       !["input"] = HDMI1,
                                       !["source"] = SIGNAL]
          IN IF PowerIsOn(base["power"])
             THEN /\ xResult' = base
                  /\ xPc' = "ref"
                  /\ xIdx' = 1
                  /\ UNCHANGED <<xOut, xData>>
             ELSE /\ xResult' = [base EXCEPT !["IFLT"] = POWER_OFF]
                  /\ xPc' = "log"
                  /\ UNCHANGED <<xIdx, xOut, xData>>
     ELSE PollXRaises(PollRaise(res)) /\ UNCHANGED xResult
  /\ UNCHANGED <<constHasKeys, xAnswers>>
  /\ UNCHANGED <<sysVars, cmdVars, hsVars, otherAuxOfPollX>>

\* What the try block of query i leaves in result when device.ref returned
\* the decoded value: the light-source time as an integer, the other values
\* as they are; "result[const.<key>] = raw" stores nothing when reading the
\* key raises AttributeError, which the query's own except Exception takes.
StoredBy(i, res) ==
  LET q == XQueries[i]
  IN IF q.key = "IFLT"
     THEN IF StoredLightTime(DecodedOf(i)) = Unset THEN res
          ELSE [res EXCEPT !["IFLT"] = StoredLightTime(DecodedOf(i))]
     ELSE IF Resolves(q.key) THEN [res EXCEPT ![q.key] = DecodedOf(i)] ELSE res

\* "if const.CONTENT_TYPE in result: result[const.CONTENT_TYPE_DIAGNOSTIC] =
\* result[const.CONTENT_TYPE]"
Diagnostic(res) ==
  IF res["CONTENT_TYPE"] # Absent
  THEN [res EXCEPT !["CONTENT_TYPE_DIAGNOSTIC"] = res["CONTENT_TYPE"]]
  ELSE res

\* One extended query and the statements up to the next one; ans is how
\* device.ref ended: "value", "none" (None or empty), "timeout", "error".
PollXRef(ans) ==
  /\ xPc = "ref"
  /\ xAnswers' = Append(xAnswers, ans)
  /\ LET q == XQueries[xIdx]
         after == IF ans = "value" THEN StoredBy(xIdx, xResult) ELSE xResult
     IN IF q.code = PMCT /\ ~Resolves("CONTENT_TYPE")
        THEN \* const.CONTENT_TYPE outside the query's try: the poll's
             \* "except Exception" raises UpdateFailed
             /\ xResult' = after
             /\ PollXRaises(PollRaise("error"))
        ELSE /\ xResult' = IF q.code = PMCT THEN Diagnostic(after) ELSE after
             /\ IF xIdx = Len(XQueries)
                THEN xPc' = "log" /\ xIdx' = 0
                ELSE xPc' = "ref" /\ xIdx' = xIdx + 1
             /\ UNCHANGED <<xOut, xData>>
  /\ UNCHANGED constHasKeys
  /\ UNCHANGED <<sysVars, cmdVars, hsVars, otherAuxOfPollX>>

\* The closing _LOGGER.debug, whose arguments read const.PICTURE_MODE, and
\* "return result": the coordinator takes the result as its data.
PollXReturn ==
  /\ xPc = "log"
  /\ IF Resolves("PICTURE_MODE")
     THEN /\ xPc' = "done"
          /\ xOut' = "returned"
          /\ xData' = xResult
          /\ UNCHANGED xIdx
     ELSE PollXRaises(PollRaise("error"))
  /\ UNCHANGED <<constHasKeys, xAnswers, xResult>>
  /\ UNCHANGED <<sysVars, cmdVars, hsVars, otherAuxOfPollX>>

\* coordinator.data of an earlier poll of a projector that was on.
EarlierData ==
  [k \in ResultKeys |->
     CASE k = "power" -> ON
       [] k = "input" -> HDMI1
       [] k = "source" -> SIGNAL
       [] k = "IFLT" -> <<"int", 399>>
       [] k = "CONTENT_TYPE_DIAGNOSTIC" -> DecodedOf(4)
       [] OTHER -> DecodedOf(CHOOSE i \in 1..Len(XQueries) : XQueries[i].key = k)]

PollXInit ==
  /\ constHasKeys \in BOOLEAN
  /\ xPc = "idle"
  /\ xIdx = 0
  /\ xAnswers = <<>>
  /\ xResult = EmptyDict
  /\ xOut = "none"
  /\ xData \in {EmptyDict} \cup (IF constHasKeys THEN {EarlierData} ELSE {})

InitPoll == SysInit /\ CmdIdle /\ HsIdle(None) /\ SelIdle /\ NumIdle /\ FlowIdle /\ PollXInit
NextPoll ==
  \/ PollXStart
  \/ \E res \in {"ok", "timeout", "connect_error", "auth_error", "error"} : PollXConnect(res)
  \/ \E res \in {"ok", "timeout", "connect_error", "auth_error", "error"}, power \in PowerValues : PollXState(res, power)
  \/ \E ans \in {"value", "none", "timeout", "error"} : PollXRef(ans)
  \/ PollXReturn
SpecPoll == InitPoll /\ [][NextPoll]_vars

--------------------------------------------------------------------------
\* sensor.py: JvcSensor.native_value for the entity description's key

NO_SIGNAL == <<"N", "o", " ", "S", "i", "g", "n", "a", "l">>
NO_DATA == <<"n", "o", "_", "d", "a", "t", "a">>
SensorKeys == {"power", "IFLT", "IFIS", "IFIN"}

\* int(value) of the light-source time: the integer, None for a text
IntOrNone(value) == IF value[1] = "int" THEN value ELSE None

sensor_native_value(key, d) ==
  LET value == DictGet(d, key)
      power == DictGet(d, "power")
  IN CASE value = None -> None
       [] key = "IFLT" -> IF power \in {STANDBY, COOLING} THEN None ELSE IntOrNone(value)
       [] key = "IFIS" /\ power \in {STANDBY, COOLING} -> NO_SIGNAL
       [] OTHER -> value

\* Every extended query that this poll sent came back with a decoded value.
AllDecoded == \A i \in 1..Len(xAnswers) : xAnswers[i] = "value"

\* C21: when the base state reports power on and every extended query (IFLT,
\* IFIS, IFIN, PMCT, PMAT, PMPM) returns a decoded value, the poll completes
\* without UpdateFailed and returns a mapping that holds the base state and
\* the light-source time, source display, input display, content type and
\* picture mode.
C21_PollWithAllValuesReturns ==
  (xPc = "done" /\ xResult["power"] = ON /\ AllDecoded) =>
    /\ xOut = "returned"
    /\ Len(xAnswers) = Len(XQueries)
    /\ xData["power"] = ON /\ xData["input"] = HDMI1 /\ xData["source"] = SIGNAL
    /\ xData["IFLT"] = <<"int", 400>>
    /\ xData["IFIS"] = DecodedOf(2)
    /\ xData["IFIN"] = DecodedOf(3)
    /\ xData["CONTENT_TYPE"] = DecodedOf(4)
    /\ xData["PICTURE_MODE"] = DecodedOf(6)

\* What holds when the imported const has the four attributes.
PollWithAllValuesReturnsIfNamesResolve == constHasKeys => C21_PollWithAllValuesReturns

\* Without them no poll returns: each ends with UpdateFailed.
NoPollReturnsUnlessNamesResolve == (xPc = "done" /\ ~constHasKeys) => xOut # "returned"

\* C22: after a poll that reports power standby or cooling, the native value
\* of the source-display (IFIS) sensor is "No Signal" and not None, the
\* poll's result having replaced the coordinator data.
C22_NoSignalWhenOff ==
  (xPc = "done" /\ xOut = "returned" /\ xData["power"] \in {STANDBY, COOLING}) =>
    sensor_native_value("IFIS", xData) = NO_SIGNAL

\* What the sensor gives then: None, the result of such a poll having no
\* source-display entry.
NoneWhenOff ==
  (xPc = "done" /\ xOut = "returned" /\ xData["power"] \in {STANDBY, COOLING}) =>
    (xData["IFIS"] = Absent /\ sensor_native_value("IFIS", xData) = None)

====
